---------------------------- MODULE Spec2Model ----------------------------
(***************************************************************************)
(* Frame loop of TexColumnsApp (src/TexColumnsApp.cpp): the circular array *)
(* of frame resources, the fence hand-off between the CPU thread and the   *)
(* GPU command queue, the dirty-counter update pass, and the recording of  *)
(* the per-layer draw calls.                                               *)
(*                                                                         *)
(* Floating point values are held in fixed point: the float 1.0f is the    *)
(* integer FixedOne, so 2.2f is 220.  Angles are counted in quarter turns  *)
(* (XM_PIDIV2 = 1, XM_PI = 2), the only angles the scene uses.             *)
(***************************************************************************)
EXTENDS Integers, Sequences, FiniteSets, TLC

gNumFrameResources == 3

FixedOne == 100

\* Bounds of the model (not program constants).
MaxFrames == 4
MaxInitFence == 2

FrameIndices == 0 .. (gNumFrameResources - 1)

\* enum class RenderLayer
Opaque == 0
Transparent == 1
AlphaTested == 2
AlphaTestedTreeSprites == 3
Count == 4

TRIANGLELIST == "D3D_PRIMITIVE_TOPOLOGY_TRIANGLELIST"
POINTLIST == "D3D_PRIMITIVE_TOPOLOGY_POINTLIST"

----------------------------------------------------------------------------
(* 4x4 matrices, row major, rows and columns numbered 1..4 (the source's   *)
(* M(r, c) is row r+1, column c+1).                                        *)

Identity4x4 ==
   << <<FixedOne, 0, 0, 0>>, <<0, FixedOne, 0, 0>>,
      <<0, 0, FixedOne, 0>>, <<0, 0, 0, FixedOne>> >>

XMMatrixScaling(sx, sy, sz) ==
   << <<sx, 0, 0, 0>>, <<0, sy, 0, 0>>, <<0, 0, sz, 0>>, <<0, 0, 0, FixedOne>> >>

XMMatrixTranslation(x, y, z) ==
   << <<FixedOne, 0, 0, 0>>, <<0, FixedOne, 0, 0>>,
      <<0, 0, FixedOne, 0>>, <<x, y, z, FixedOne>> >>

\* cosine and sine of q quarter turns, in fixed point
CosQ(q) == CASE q % 4 = 0 -> FixedOne [] q % 4 = 2 -> -FixedOne [] OTHER -> 0
SinQ(q) == CASE q % 4 = 1 -> FixedOne [] q % 4 = 3 -> -FixedOne [] OTHER -> 0

XMMatrixRotationX(q) ==
   << <<FixedOne, 0, 0, 0>>, <<0, CosQ(q), SinQ(q), 0>>,
      <<0, -SinQ(q), CosQ(q), 0>>, <<0, 0, 0, FixedOne>> >>

XMMatrixRotationY(q) ==
   << <<CosQ(q), 0, -SinQ(q), 0>>, <<0, FixedOne, 0, 0>>,
      <<SinQ(q), 0, CosQ(q), 0>>, <<0, 0, 0, FixedOne>> >>

XMMatrixMultiply(A, B) ==
   [r \in 1..4 |-> [c \in 1..4 |->
      (A[r][1] * B[1][c] + A[r][2] * B[2][c]
        + A[r][3] * B[3][c] + A[r][4] * B[4][c]) \div FixedOne]]

XMMatrixTranspose(M) == [r \in 1..4 |-> [c \in 1..4 |-> M[c][r]]]

----------------------------------------------------------------------------
(* Materials.                                                              *)

\* The members of struct Material that BuildMaterials leaves at their
\* defaults.
MaterialDefaults ==
   [MatTransform |-> Identity4x4, NumFramesDirty |-> gNumFrameResources]

Material(name, matCBIndex, srvIndex, albedo, fresnel, roughness) ==
   [Name |-> name, MatCBIndex |-> matCBIndex, DiffuseSrvHeapIndex |-> srvIndex,
    DiffuseAlbedo |-> albedo, FresnelR0 |-> fresnel, Roughness |-> roughness,
    MatTransform |-> MaterialDefaults.MatTransform,
    NumFramesDirty |-> MaterialDefaults.NumFramesDirty]

\* Faulty variant: bricks3 is not registered.
MaterialNamesWithoutBricks3 ==
   {"bricks0", "stone0", "tile0", "grass", "water", "treeSprites"}

MaterialNames ==
   {"bricks0", "bricks3", "stone0", "tile0", "grass", "water", "treeSprites"}

\* Roughness and FresnelR0 in thousandths, the albedo by the name or the
\* literal the source gives.
BuildMaterials ==
   [n \in MaterialNames |->
      CASE n = "bricks0" -> Material(n, 0, 0, "Colors::ForestGreen", <<20, 20, 20>>, 100)
        [] n = "stone0" -> Material(n, 1, 1, "Colors::LightSteelBlue", <<50, 50, 50>>, 300)
        [] n = "tile0" -> Material(n, 2, 2, "Colors::LightGray", <<20, 20, 20>>, 300)
        [] n = "grass" -> Material(n, 3, 3, "1.0,1.0,1.0,1.0", <<10, 10, 10>>, 125)
        [] n = "water" -> Material(n, 4, 4, "1.0,1.0,1.0,0.5", <<100, 100, 100>>, 0)
        [] n = "bricks3" -> Material(n, 5, 5, "Colors::RosyBrown", <<20, 20, 20>>, 100)
        [] n = "treeSprites" -> Material(n, 6, 6, "1.0,1.0,1.0,1.0", <<10, 10, 10>>, 125)]

----------------------------------------------------------------------------
(* Geometries.  The meshes come from the geometry generator; MeshData      *)
(* gives the number of vertices and indices of each.                       *)

WavesRowCount == 128
WavesColumnCount == 128
WavesVertexCount == WavesRowCount * WavesColumnCount
WavesTriangleCount == (WavesRowCount - 1) * (WavesColumnCount - 1) * 2

MeshData(name) ==
   CASE name = "box" -> [Vertices |-> 24, Indices32 |-> 36]
     [] name = "sphere" -> [Vertices |-> 10, Indices32 |-> 48]
     [] name = "cylinder" -> [Vertices |-> 12, Indices32 |-> 60]
     [] name = "torus" -> [Vertices |-> 16, Indices32 |-> 54]
     [] name = "cone" -> [Vertices |-> 9, Indices32 |-> 24]
     [] name = "pyramid" -> [Vertices |-> 5, Indices32 |-> 18]
     [] name = "wedge" -> [Vertices |-> 6, Indices32 |-> 30]
     [] name = "diamond" -> [Vertices |-> 14, Indices32 |-> 42]
     [] name = "prism" -> [Vertices |-> 8, Indices32 |-> 12]
     [] name = "land" -> [Vertices |-> 2500, Indices32 |-> 14406]
     [] name = "wall" -> [Vertices |-> 48, Indices32 |-> 72]

SubmeshGeometry(indexCount, startIndexLocation, baseVertexLocation) ==
   [IndexCount |-> indexCount, StartIndexLocation |-> startIndexLocation,
    BaseVertexLocation |-> baseVertexLocation]

\* A GPU resource is named by its owner and, for a frame resource's buffer,
\* the index of the frame resource (-1 otherwise).
NullResource == <<"nullptr", -1>>
DefaultBuffer(owner) == <<owner, -1>>

MeshGeometry(name, vertexBufferGPU, drawArgs) ==
   [Name |-> name, VertexBufferGPU |-> vertexBufferGPU,
    IndexBufferGPU |-> DefaultBuffer(name \o ".IndexBufferGPU"),
    DrawArgs |-> drawArgs]

BuildLandGeometry ==
   MeshGeometry("landGeo", DefaultBuffer("landGeo.VertexBufferGPU"),
      [s \in {"grid"} |-> SubmeshGeometry(MeshData("land").Indices32, 0, 0)])

BuildLabyrinthGeometry ==
   MeshGeometry("wallGeo", DefaultBuffer("wallGeo.VertexBufferGPU"),
      [s \in {"wall"} |-> SubmeshGeometry(MeshData("wall").Indices32, 0, 0)])

BuildWavesGeometry ==
   MeshGeometry("waterGeo", NullResource,
      [s \in {"grid"} |-> SubmeshGeometry(3 * WavesTriangleCount, 0, 0)])

\* The order in which BuildShapeGeometry concatenates the meshes.
ShapeOrder ==
   <<"box", "sphere", "cylinder", "torus", "cone", "pyramid", "wedge",
     "diamond", "prism">>

RECURSIVE ShapeVertexOffset(_)
ShapeVertexOffset(k) ==
   IF k = 1 THEN 0
   ELSE ShapeVertexOffset(k - 1) + MeshData(ShapeOrder[k - 1]).Vertices

RECURSIVE ShapeIndexOffset(_)
ShapeIndexOffset(k) ==
   IF k = 1 THEN 0
   ELSE ShapeIndexOffset(k - 1) + MeshData(ShapeOrder[k - 1]).Indices32

ShapePosition(name) == CHOOSE k \in 1..Len(ShapeOrder) : ShapeOrder[k] = name

BuildShapeGeometry ==
   MeshGeometry("shapeGeo", DefaultBuffer("shapeGeo.VertexBufferGPU"),
      [s \in {ShapeOrder[k] : k \in 1..Len(ShapeOrder)} |->
         SubmeshGeometry(MeshData(s).Indices32,
                         ShapeIndexOffset(ShapePosition(s)),
                         ShapeVertexOffset(ShapePosition(s)))])

\* Faulty variant: the meshes are copied in the order they were created.
ShapeCopyOrderAsCreated ==
   <<"torus", "cone", "pyramid", "wedge", "diamond", "prism", "box", "sphere",
     "cylinder">>

\* The order in which BuildShapeGeometry copies the vertices of the meshes
\* into `vertices` and inserts their indices into `indices`.
ShapeCopyOrder ==
   <<"box", "sphere", "cylinder", "torus", "cone", "pyramid", "wedge",
     "diamond", "prism">>

\* The concatenated vertex buffer: each vertex by its mesh and its number
\* in the mesh.
RECURSIVE ShapeVertices(_)
ShapeVertices(k) ==
   IF k = 0 THEN <<>>
   ELSE ShapeVertices(k - 1)
           \o [v \in 1..MeshData(ShapeCopyOrder[k]).Vertices |->
                 [mesh |-> ShapeCopyOrder[k], v |-> v - 1]]

\* The concatenated index buffer: each index by its mesh and its position
\* in the mesh's index list.
RECURSIVE ShapeIndices(_)
ShapeIndices(k) ==
   IF k = 0 THEN <<>>
   ELSE ShapeIndices(k - 1)
           \o [n \in 1..MeshData(ShapeCopyOrder[k]).Indices32 |->
                 [mesh |-> ShapeCopyOrder[k], n |-> n - 1]]

\* One point per tree: two columns of trees along x = -60 and x = 60, and two
\* rows along z = -60 and z = 60 with a gap of three in the first.
TreeSpriteCount ==
   Cardinality({<<i, j>> \in {-60, 60} \X {10 * k : k \in 0..12} : TRUE})
   + Cardinality({<<i, j>> \in {-60, 60} \X {10 * k : k \in -5..5} :
                     ~(j \in {0, 10, -10} /\ i = -60)})

BuildTreeSpritesGeometry ==
   MeshGeometry("treeSpritesGeo", DefaultBuffer("treeSpritesGeo.VertexBufferGPU"),
      [s \in {"points"} |-> SubmeshGeometry(TreeSpriteCount, 0, 0)])

GeometryNames == {"landGeo", "wallGeo", "waterGeo", "shapeGeo", "treeSpritesGeo"}

BuildGeometries ==
   [n \in GeometryNames |->
      CASE n = "landGeo" -> BuildLandGeometry
        [] n = "wallGeo" -> BuildLabyrinthGeometry
        [] n = "waterGeo" -> BuildWavesGeometry
        [] n = "shapeGeo" -> BuildShapeGeometry
        [] n = "treeSpritesGeo" -> BuildTreeSpritesGeometry]

----------------------------------------------------------------------------
(* Render items.  A RenderItem* is the position of the item in mAllRitems  *)
(* (1 for the first), a Material* or MeshGeometry* the name it is          *)
(* registered under.                                                       *)

\* What BuildRenderItems sets on one item before registering it; Layers are
\* the layers it pushes the item to at that point.
Ritem(world, texTransform, mat, geo, submesh, primitiveType, layers) ==
   [World |-> world, TexTransform |-> texTransform, Mat |-> mat, Geo |-> geo,
    Submesh |-> submesh, PrimitiveType |-> primitiveType, Layers |-> layers]

RitemScript ==
   <<
      (* 0: wavesRitem, line 1612 *)
      Ritem(Identity4x4,
            XMMatrixScaling(500, 500, 100), "water", "waterGeo", "grid", TRIANGLELIST, <<Transparent>>),
      (* 1: wallRitem, line 1628 *)
      Ritem(XMMatrixTranslation(0, 0, -4000),
            Identity4x4, "tile0", "wallGeo", "wall", TRIANGLELIST, <<Opaque>>),
      (* 2: boxRitem, line 1641 *)
      Ritem(XMMatrixMultiply(XMMatrixScaling(220, 130, 220), XMMatrixTranslation(-440, 750, -1090)),
            Identity4x4, "bricks3", "shapeGeo", "box", TRIANGLELIST, <<AlphaTested>>),
      (* 3: boxRitem1, line 1654 *)
      Ritem(XMMatrixMultiply(XMMatrixScaling(220, 130, 220), XMMatrixTranslation(440, 750, -1090)),
            Identity4x4, "bricks3", "shapeGeo", "box", TRIANGLELIST, <<AlphaTested>>),
      (* 4: boxRitem2, line 1667 *)
      Ritem(XMMatrixMultiply(XMMatrixScaling(850, 130, 130), XMMatrixTranslation(0, 750, -1030)),
            Identity4x4, "bricks3", "shapeGeo", "box", TRIANGLELIST, <<AlphaTested>>),
      (* 5: boxRitem3, line 1680 *)
      Ritem(XMMatrixMultiply(XMMatrixScaling(580, 86, 90), XMMatrixTranslation(-1370, 494, -980)),
            Identity4x4, "bricks3", "shapeGeo", "box", TRIANGLELIST, <<AlphaTested>>),
      (* 6: boxRitem4, line 1692 *)
      Ritem(XMMatrixMultiply(XMMatrixScaling(580, 86, 90), XMMatrixTranslation(1370, 494, -980)),
            Identity4x4, "bricks3", "shapeGeo", "box", TRIANGLELIST, <<AlphaTested>>),
      (* 7: boxRitem6, line 1707 *)
      Ritem(XMMatrixMultiply(XMMatrixScaling(290, 110, 290), XMMatrixTranslation(-1780, 670, 400)),
            Identity4x4, "bricks3", "shapeGeo", "box", TRIANGLELIST, <<AlphaTested>>),
      (* 8: boxRitem5, line 1719 *)
      Ritem(XMMatrixMultiply(XMMatrixMultiply(XMMatrixScaling(620, 86, 90), XMMatrixRotationY(1)), XMMatrixTranslation(-1780, 535, -215)),
            Identity4x4, "bricks3", "shapeGeo", "box", TRIANGLELIST, <<AlphaTested>>),
      (* 9: boxRitem7, line 1731 *)
      Ritem(XMMatrixMultiply(XMMatrixMultiply(XMMatrixScaling(620, 86, 90), XMMatrixRotationY(1)), XMMatrixTranslation(-1780, 535, 1215)),
            Identity4x4, "bricks3", "shapeGeo", "box", TRIANGLELIST, <<AlphaTested>>),
      (* 10: boxRitem8, line 1748 *)
      Ritem(XMMatrixMultiply(XMMatrixScaling(290, 110, 290), XMMatrixTranslation(1780, 670, 400)),
            Identity4x4, "bricks3", "shapeGeo", "box", TRIANGLELIST, <<AlphaTested>>),
      (* 11: boxRitem9, line 1760 *)
      Ritem(XMMatrixMultiply(XMMatrixMultiply(XMMatrixScaling(620, 86, 90), XMMatrixRotationY(1)), XMMatrixTranslation(1780, 535, -215)),
            Identity4x4, "bricks3", "shapeGeo", "box", TRIANGLELIST, <<AlphaTested>>),
      (* 12: boxRitem10, line 1772 *)
      Ritem(XMMatrixMultiply(XMMatrixMultiply(XMMatrixScaling(620, 86, 90), XMMatrixRotationY(1)), XMMatrixTranslation(1780, 535, 1215)),
            Identity4x4, "bricks3", "shapeGeo", "box", TRIANGLELIST, <<AlphaTested>>),
      (* 13: boxRitem11, line 1787 *)
      Ritem(XMMatrixMultiply(XMMatrixScaling(1560, 86, 90), XMMatrixTranslation(0, 494, 2080)),
            Identity4x4, "bricks3", "shapeGeo", "box", TRIANGLELIST, <<AlphaTested>>),
      (* 14: CylRitem, line 1802 *)
      Ritem(XMMatrixMultiply(XMMatrixScaling(220, 200, 220), XMMatrixTranslation(0, 1050, 400)),
            Identity4x4, "bricks0", "shapeGeo", "cylinder", TRIANGLELIST, <<>>),
      (* 15: torusRitem, line 1813 *)
      Ritem(XMMatrixMultiply(XMMatrixMultiply(XMMatrixScaling(120, 120, 120), XMMatrixRotationX(1)), XMMatrixTranslation(0, 2300, 400)),
            Identity4x4, "stone0", "shapeGeo", "torus", TRIANGLELIST, <<>>),
      (* 16: coneRitem, line 1826 *)
      Ritem(XMMatrixMultiply(XMMatrixScaling(135, 135, 135), XMMatrixTranslation(0, 2700, 400)),
            Identity4x4, "stone0", "shapeGeo", "cone", TRIANGLELIST, <<>>),
      (* 17: diamondRitem, line 1838 *)
      Ritem(XMMatrixMultiply(XMMatrixScaling(150, 150, 150), XMMatrixTranslation(0, 3360, 400)),
            Identity4x4, "stone0", "shapeGeo", "diamond", TRIANGLELIST, <<>>),
      (* 18: leftwedgeRitem_i0, line 1857 *)
      Ritem(XMMatrixMultiply(XMMatrixMultiply(XMMatrixScaling(150, 150, 150), XMMatrixRotationX(2)), XMMatrixTranslation(-1780, 1400, 1600)),
            Identity4x4, "stone0", "shapeGeo", "wedge", TRIANGLELIST, <<>>),
      (* 19: rightwedgeRitem_i0, line 1858 *)
      Ritem(XMMatrixMultiply(XMMatrixMultiply(XMMatrixScaling(150, 150, 150), XMMatrixRotationX(2)), XMMatrixTranslation(1780, 1400, 1600)),
            Identity4x4, "stone0", "shapeGeo", "wedge", TRIANGLELIST, <<>>),
      (* 20: leftboxRitem_i0, line 1859 *)
      Ritem(XMMatrixMultiply(XMMatrixMultiply(XMMatrixScaling(155, 20, 155), XMMatrixRotationX(2)), XMMatrixTranslation(-1780, 1650, 1600)),
            Identity4x4, "stone0", "shapeGeo", "box", TRIANGLELIST, <<>>),
      (* 21: rightboxRitem_i0, line 1860 *)
      Ritem(XMMatrixMultiply(XMMatrixMultiply(XMMatrixScaling(155, 20, 155), XMMatrixRotationX(2)), XMMatrixTranslation(1780, 1650, 1600)),
            Identity4x4, "stone0", "shapeGeo", "box", TRIANGLELIST, <<>>),
      (* 22: leftwedgeRitem_i1, line 1857 *)
      Ritem(XMMatrixMultiply(XMMatrixMultiply(XMMatrixScaling(150, 150, 150), XMMatrixRotationX(2)), XMMatrixTranslation(-1780, 1400, -1400)),
            Identity4x4, "stone0", "shapeGeo", "wedge", TRIANGLELIST, <<>>),
      (* 23: rightwedgeRitem_i1, line 1858 *)
      Ritem(XMMatrixMultiply(XMMatrixMultiply(XMMatrixScaling(150, 150, 150), XMMatrixRotationX(2)), XMMatrixTranslation(1780, 1400, -1400)),
            Identity4x4, "stone0", "shapeGeo", "wedge", TRIANGLELIST, <<>>),
      (* 24: leftboxRitem_i1, line 1859 *)
      Ritem(XMMatrixMultiply(XMMatrixMultiply(XMMatrixScaling(155, 20, 155), XMMatrixRotationX(2)), XMMatrixTranslation(-1780, 1650, -1400)),
            Identity4x4, "stone0", "shapeGeo", "box", TRIANGLELIST, <<>>),
      (* 25: rightboxRitem_i1, line 1860 *)
      Ritem(XMMatrixMultiply(XMMatrixMultiply(XMMatrixScaling(155, 20, 155), XMMatrixRotationX(2)), XMMatrixTranslation(1780, 1650, -1400)),
            Identity4x4, "stone0", "shapeGeo", "box", TRIANGLELIST, <<>>),
      (* 26: leftwedgeRitem1_i0, line 1923 *)
      Ritem(XMMatrixMultiply(XMMatrixMultiply(XMMatrixMultiply(XMMatrixScaling(150, 150, 150), XMMatrixRotationX(2)), XMMatrixRotationY(1)), XMMatrixTranslation(-2180, 1400, 2000)),
            Identity4x4, "stone0", "shapeGeo", "wedge", TRIANGLELIST, <<>>),
      (* 27: rightwedgeRitem1_i0, line 1924 *)
      Ritem(XMMatrixMultiply(XMMatrixMultiply(XMMatrixMultiply(XMMatrixScaling(150, 150, 150), XMMatrixRotationX(2)), XMMatrixRotationY(1)), XMMatrixTranslation(1380, 1400, 2000)),
            Identity4x4, "stone0", "shapeGeo", "wedge", TRIANGLELIST, <<>>),
      (* 28: leftboxRitem1_i0, line 1925 *)
      Ritem(XMMatrixMultiply(XMMatrixMultiply(XMMatrixScaling(155, 20, 155), XMMatrixRotationX(2)), XMMatrixTranslation(-2180, 1650, 2000)),
            Identity4x4, "stone0", "shapeGeo", "box", TRIANGLELIST, <<>>),
      (* 29: rightboxRitem1_i0, line 1926 *)
      Ritem(XMMatrixMultiply(XMMatrixMultiply(XMMatrixScaling(155, 20, 155), XMMatrixRotationX(2)), XMMatrixTranslation(1380, 1650, 2000)),
            Identity4x4, "stone0", "shapeGeo", "box", TRIANGLELIST, <<>>),
      (* 30: leftwedgeRitem1_i1, line 1923 *)
      Ritem(XMMatrixMultiply(XMMatrixMultiply(XMMatrixMultiply(XMMatrixScaling(150, 150, 150), XMMatrixRotationX(2)), XMMatrixRotationY(1)), XMMatrixTranslation(-2180, 1400, -1000)),
            Identity4x4, "stone0", "shapeGeo", "wedge", TRIANGLELIST, <<>>),
      (* 31: rightwedgeRitem1_i1, line 1924 *)
      Ritem(XMMatrixMultiply(XMMatrixMultiply(XMMatrixMultiply(XMMatrixScaling(150, 150, 150), XMMatrixRotationX(2)), XMMatrixRotationY(1)), XMMatrixTranslation(1380, 1400, -1000)),
            Identity4x4, "stone0", "shapeGeo", "wedge", TRIANGLELIST, <<>>),
      (* 32: leftboxRitem1_i1, line 1925 *)
      Ritem(XMMatrixMultiply(XMMatrixMultiply(XMMatrixScaling(155, 20, 155), XMMatrixRotationX(2)), XMMatrixTranslation(-2180, 1650, -1000)),
            Identity4x4, "stone0", "shapeGeo", "box", TRIANGLELIST, <<>>),
      (* 33: rightboxRitem1_i1, line 1926 *)
      Ritem(XMMatrixMultiply(XMMatrixMultiply(XMMatrixScaling(155, 20, 155), XMMatrixRotationX(2)), XMMatrixTranslation(1380, 1650, -1000)),
            Identity4x4, "stone0", "shapeGeo", "box", TRIANGLELIST, <<>>),
      (* 34: leftwedgeRitem2_i0, line 1980 *)
      Ritem(XMMatrixMultiply(XMMatrixMultiply(XMMatrixMultiply(XMMatrixScaling(150, 150, 150), XMMatrixRotationX(2)), XMMatrixRotationY(3)), XMMatrixTranslation(-1380, 1400, 2000)),
            Identity4x4, "stone0", "shapeGeo", "wedge", TRIANGLELIST, <<>>),
      (* 35: rightwedgeRitem2_i0, line 1981 *)
      Ritem(XMMatrixMultiply(XMMatrixMultiply(XMMatrixMultiply(XMMatrixScaling(150, 150, 150), XMMatrixRotationX(2)), XMMatrixRotationY(3)), XMMatrixTranslation(2180, 1400, 2000)),
            Identity4x4, "stone0", "shapeGeo", "wedge", TRIANGLELIST, <<>>),
      (* 36: leftboxRitem2_i0, line 1982 *)
      Ritem(XMMatrixMultiply(XMMatrixMultiply(XMMatrixScaling(155, 20, 155), XMMatrixRotationX(2)), XMMatrixTranslation(-1380, 1650, 2000)),
            Identity4x4, "stone0", "shapeGeo", "box", TRIANGLELIST, <<>>),
      (* 37: rightboxRitem2_i0, line 1983 *)
      Ritem(XMMatrixMultiply(XMMatrixMultiply(XMMatrixScaling(155, 20, 155), XMMatrixRotationX(2)), XMMatrixTranslation(2180, 1650, 2000)),
            Identity4x4, "stone0", "shapeGeo", "box", TRIANGLELIST, <<>>),
      (* 38: leftwedgeRitem2_i1, line 1980 *)
      Ritem(XMMatrixMultiply(XMMatrixMultiply(XMMatrixMultiply(XMMatrixScaling(150, 150, 150), XMMatrixRotationX(2)), XMMatrixRotationY(3)), XMMatrixTranslation(-1380, 1400, -1000)),
            Identity4x4, "stone0", "shapeGeo", "wedge", TRIANGLELIST, <<>>),
      (* 39: rightwedgeRitem2_i1, line 1981 *)
      Ritem(XMMatrixMultiply(XMMatrixMultiply(XMMatrixMultiply(XMMatrixScaling(150, 150, 150), XMMatrixRotationX(2)), XMMatrixRotationY(3)), XMMatrixTranslation(2180, 1400, -1000)),
            Identity4x4, "stone0", "shapeGeo", "wedge", TRIANGLELIST, <<>>),
      (* 40: leftboxRitem2_i1, line 1982 *)
      Ritem(XMMatrixMultiply(XMMatrixMultiply(XMMatrixScaling(155, 20, 155), XMMatrixRotationX(2)), XMMatrixTranslation(-1380, 1650, -1000)),
            Identity4x4, "stone0", "shapeGeo", "box", TRIANGLELIST, <<>>),
      (* 41: rightboxRitem2_i1, line 1983 *)
      Ritem(XMMatrixMultiply(XMMatrixMultiply(XMMatrixScaling(155, 20, 155), XMMatrixRotationX(2)), XMMatrixTranslation(2180, 1650, -1000)),
            Identity4x4, "stone0", "shapeGeo", "box", TRIANGLELIST, <<>>),
      (* 42: leftwedgeRitem3_i0, line 2035 *)
      Ritem(XMMatrixMultiply(XMMatrixMultiply(XMMatrixMultiply(XMMatrixScaling(150, 150, 150), XMMatrixRotationX(2)), XMMatrixRotationY(2)), XMMatrixTranslation(-1780, 1400, 2400)),
            Identity4x4, "stone0", "shapeGeo", "wedge", TRIANGLELIST, <<>>),
      (* 43: rightwedgeRitem3_i0, line 2036 *)
      Ritem(XMMatrixMultiply(XMMatrixMultiply(XMMatrixMultiply(XMMatrixScaling(150, 150, 150), XMMatrixRotationX(2)), XMMatrixRotationY(2)), XMMatrixTranslation(1780, 1400, 2400)),
            Identity4x4, "stone0", "shapeGeo", "wedge", TRIANGLELIST, <<>>),
      (* 44: leftboxRitem3_i0, line 2037 *)
      Ritem(XMMatrixMultiply(XMMatrixMultiply(XMMatrixScaling(155, 20, 155), XMMatrixRotationX(2)), XMMatrixTranslation(-1780, 1650, 2400)),
            Identity4x4, "stone0", "shapeGeo", "box", TRIANGLELIST, <<>>),
      (* 45: rightboxRitem3_i0, line 2038 *)
      Ritem(XMMatrixMultiply(XMMatrixMultiply(XMMatrixScaling(155, 20, 155), XMMatrixRotationX(2)), XMMatrixTranslation(1780, 1650, 2400)),
            Identity4x4, "stone0", "shapeGeo", "box", TRIANGLELIST, <<>>),
      (* 46: leftwedgeRitem3_i1, line 2035 *)
      Ritem(XMMatrixMultiply(XMMatrixMultiply(XMMatrixMultiply(XMMatrixScaling(150, 150, 150), XMMatrixRotationX(2)), XMMatrixRotationY(2)), XMMatrixTranslation(-1780, 1400, -600)),
            Identity4x4, "stone0", "shapeGeo", "wedge", TRIANGLELIST, <<>>),
      (* 47: rightwedgeRitem3_i1, line 2036 *)
      Ritem(XMMatrixMultiply(XMMatrixMultiply(XMMatrixMultiply(XMMatrixScaling(150, 150, 150), XMMatrixRotationX(2)), XMMatrixRotationY(2)), XMMatrixTranslation(1780, 1400, -600)),
            Identity4x4, "stone0", "shapeGeo", "wedge", TRIANGLELIST, <<>>),
      (* 48: leftboxRitem3_i1, line 2037 *)
      Ritem(XMMatrixMultiply(XMMatrixMultiply(XMMatrixScaling(155, 20, 155), XMMatrixRotationX(2)), XMMatrixTranslation(-1780, 1650, -600)),
            Identity4x4, "stone0", "shapeGeo", "box", TRIANGLELIST, <<>>),
      (* 49: rightboxRitem3_i1, line 2038 *)
      Ritem(XMMatrixMultiply(XMMatrixMultiply(XMMatrixScaling(155, 20, 155), XMMatrixRotationX(2)), XMMatrixTranslation(1780, 1650, -600)),
            Identity4x4, "stone0", "shapeGeo", "box", TRIANGLELIST, <<>>),
      (* 50: gridRitem, line 2092 *)
      Ritem(Identity4x4,
            Identity4x4, "grass", "landGeo", "grid", TRIANGLELIST, <<Opaque>>),
      (* 51: treeSpritesRitem, line 2104 *)
      Ritem(Identity4x4,
            Identity4x4, "treeSprites", "treeSpritesGeo", "points", POINTLIST, <<AlphaTestedTreeSprites>>),
      (* 52: leftCylRitem_i0, line 2121 *)
      Ritem(XMMatrixMultiply(XMMatrixScaling(220, 130, 220), XMMatrixTranslation(1780, 750, -1000)),
            Identity4x4, "bricks0", "shapeGeo", "cylinder", TRIANGLELIST, <<>>),
      (* 53: rightCylRitem_i0, line 2122 *)
      Ritem(XMMatrixMultiply(XMMatrixScaling(220, 130, 220), XMMatrixTranslation(-1780, 750, -1000)),
            Identity4x4, "bricks0", "shapeGeo", "cylinder", TRIANGLELIST, <<>>),
      (* 54: leftCylRitem_i1, line 2121 *)
      Ritem(XMMatrixMultiply(XMMatrixScaling(220, 130, 220), XMMatrixTranslation(1780, 750, 2000)),
            Identity4x4, "bricks0", "shapeGeo", "cylinder", TRIANGLELIST, <<>>),
      (* 55: rightCylRitem_i1, line 2122 *)
      Ritem(XMMatrixMultiply(XMMatrixScaling(220, 130, 220), XMMatrixTranslation(-1780, 750, 2000)),
            Identity4x4, "bricks0", "shapeGeo", "cylinder", TRIANGLELIST, <<>>)
   >>

RenderItem(r, objCBIndex, geos) ==
   [World |-> r.World, TexTransform |-> r.TexTransform,
    NumFramesDirty |-> gNumFrameResources, ObjCBIndex |-> objCBIndex,
    Mat |-> r.Mat, Geo |-> r.Geo, PrimitiveType |-> r.PrimitiveType,
    IndexCount |-> geos[r.Geo].DrawArgs[r.Submesh].IndexCount,
    StartIndexLocation |-> geos[r.Geo].DrawArgs[r.Submesh].StartIndexLocation,
    BaseVertexLocation |-> geos[r.Geo].DrawArgs[r.Submesh].BaseVertexLocation]

Positions(n) == [k \in 1..n |-> k]

\* Faulty variant: the counter is raised before it is read (++objCBIndex).
RegisterItemsPreIncrement(geos) ==
   [k \in 1..Len(RitemScript) |-> RenderItem(RitemScript[k], k, geos)]

\* The k-th item of the script takes objCBIndex k - 1 (objCBIndex++) and is
\* pushed to mAllRitems as the k-th.
RegisterItems(geos) ==
   [k \in 1..Len(RitemScript) |-> RenderItem(RitemScript[k], k - 1, geos)]

\* The layer list l as the script leaves it: the items pushed to it, in
\* script order.
PushedToLayer(l) ==
   LET Pushed(k) == \E n \in 1..Len(RitemScript[k].Layers) :
                       RitemScript[k].Layers[n] = l
   IN SelectSeq(Positions(Len(RitemScript)), Pushed)

\* The closing loop of BuildRenderItems: every item but the first `skip` ones
\* is pushed to the opaque layer.
SkippedByClosingLoop == 4

PushRemaining(layer, n, skip) ==
   LET NotSkipped(k) == ~(k - 1 < skip)
   IN [layer EXCEPT ![Opaque] = @ \o SelectSeq(Positions(n), NotSkipped)]

BuildRenderItems(geos) ==
   LET all == RegisterItems(geos)
       layer == [l \in 0..(Count - 1) |-> PushedToLayer(l)]
   IN [mAllRitems |-> all,
       mRitemLayer |-> PushRemaining(layer, Len(all), SkippedByClosingLoop)]

----------------------------------------------------------------------------
(* Constant buffers and GPU addresses.                                     *)

SizeofObjectConstants == 128
SizeofMaterialConstants == 96

\* d3dUtil::CalcConstantBufferByteSize: round up to a multiple of 256.
CalcConstantBufferByteSize(byteSize) == ((byteSize + 255) \div 256) * 256

\* The address the device gave a frame resource's upload buffer: one region
\* per buffer, no two overlapping.
BufferRegionSize == 65536
BufferKinds == <<"ObjectCB", "MaterialCB", "PassCB", "WavesVB">>
GetGPUVirtualAddress(kind, fr) ==
   LET k == CHOOSE n \in 1..Len(BufferKinds) : BufferKinds[n] = kind
   IN BufferRegionSize * (Len(BufferKinds) * fr + k)

SrvHeapStart == 4096
mCbvSrvDescriptorSize == 32
SrvHeapNumDescriptors == 7

\* LoadTextures: the file each texture of mTextures is loaded from.
LoadTextures ==
   [bricksTex |-> "Textures/bricks.dds", brickTex |-> "Textures/bricks3.dds",
    stoneTex |-> "Textures/stone.dds", tileTex |-> "Textures/tile.dds",
    grassTex |-> "Textures/grass.dds", waterTex |-> "Textures/water1.dds",
    treeArrayTex |-> "Textures/treeArray.dds"]

\* Faulty variant: the views are created in the order the textures were
\* loaded.
BuildDescriptorHeapsInLoadOrder ==
   << "bricksTex", "brickTex", "stoneTex", "tileTex", "grassTex", "waterTex",
      "treeArrayTex" >>

\* BuildDescriptorHeaps: the texture whose view CreateShaderResourceView
\* writes into each descriptor of the heap, the first at slot 0.
BuildDescriptorHeaps ==
   << "bricksTex", "stoneTex", "tileTex", "grassTex", "waterTex", "brickTex",
      "treeArrayTex" >>

\* The texture file whose view is at slot s of mSrvDescriptorHeap.
TextureAtSlot(s) == LoadTextures[BuildDescriptorHeaps[s + 1]]

\* BuildPSOs: the pipeline states of mPSOs, by the topology type and the
\* input layout they are created with.  The transparent and the alpha-tested
\* state are copies of the opaque one in both.
BuildPSOs ==
   LET opaquePsoDesc == [PrimitiveTopologyType |-> "TRIANGLE",
                         InputLayout |-> "mInputLayout"]
   IN [opaque |-> opaquePsoDesc,
       transparent |-> opaquePsoDesc,
       alphaTested |-> opaquePsoDesc,
       treeSprites |-> [opaquePsoDesc EXCEPT
                          !.PrimitiveTopologyType = "POINT",
                          !.InputLayout = "mTreeSpriteInputLayout"]]

\* CD3DX12_GPU_DESCRIPTOR_HANDLE::Offset
DescriptorHandleOffset(start, offsetInDescriptors, descriptorIncrementSize) ==
   start + offsetInDescriptors * descriptorIncrementSize

\* What UpdateObjectCBs stores for a render item.
ObjectConstants(e) ==
   [World |-> XMMatrixTranspose(e.World),
    TexTransform |-> XMMatrixTranspose(e.TexTransform)]

\* What UpdateMaterialCBs stores for a material.
MaterialConstants(mat) ==
   [DiffuseAlbedo |-> mat.DiffuseAlbedo, FresnelR0 |-> mat.FresnelR0,
    Roughness |-> mat.Roughness,
    MatTransform |-> XMMatrixTranspose(mat.MatTransform)]

\* The content of upload-buffer memory nothing has been copied to yet.
UninitObjectConstants == [World |-> <<>>, TexTransform |-> <<>>]
UninitMaterialConstants ==
   [DiffuseAlbedo |-> "", FresnelR0 |-> <<>>, Roughness |-> -1, MatTransform |-> <<>>]
UninitPassConstants == [TotalTime |-> -1, DeltaTime |-> -1]
UninitWavesVB == -1

----------------------------------------------------------------------------
VARIABLES
   mCurrFrameResourceIndex,  \* cursor into mFrameResources
   Fence,                    \* FrameResource::Fence of each frame resource
   ObjectCB,                 \* FrameResource::ObjectCB, by slot
   MaterialCB,               \* FrameResource::MaterialCB, by slot
   PassCB,                   \* FrameResource::PassCB, slot 0
   WavesVB,                  \* FrameResource::WavesVB: the frame whose wave
                             \* solution it holds
   mCurrentFence,            \* the CPU's fence counter
   mAllRitems,               \* the render item registry
   mRitemLayer,              \* the layer lists
   mMaterials,               \* the material registry
   mGeometries,              \* the geometry registry
   mCommandList,             \* the commands recorded by the current Draw
   gtDeltaTime,              \* GameTimer::DeltaTime of the current frame
   gtTotalTime,              \* GameTimer::TotalTime
   completedValue,           \* mFence->GetCompletedValue()
   commandQueue,             \* work submitted to the GPU and not yet done
   pc,                       \* position of the CPU thread in the frame loop
   layerStep,                \* next DrawRenderItems call of the current Draw
   eventHandle,              \* the event Update is waiting with
   frameLog,                 \* history: one record per Update begun
   drawLog,                  \* history: the frame resource of each Draw submitted
   sinceMutation,            \* history: Update passes completed since each
                             \* material's constants last changed
   failed,                   \* history: the fence operations that have failed
   rnd,                      \* what rand() and RandF return to this frame
   t_base,                   \* UpdateWaves' static t_base
   disturbCount,             \* history: the Disturb calls made so far
   lastDisturb,              \* history: the arguments of the last Disturb call
   field,                    \* Disturb on its own: the height field
   fieldBefore,              \* Disturb on its own: the field before the last call
   fieldArgs,                \* Disturb on its own: the arguments of the last call
   wavesBuild,               \* BuildWavesGeometry's index loop on its own
   upload,                   \* constant-buffer addressing on its own
   anim                      \* AnimateMaterials on its own

vars ==
   <<mCurrFrameResourceIndex, Fence, ObjectCB, MaterialCB, PassCB, WavesVB,
     mCurrentFence, mAllRitems, mRitemLayer, mMaterials, mGeometries,
     mCommandList, gtDeltaTime, gtTotalTime, completedValue, commandQueue,
     pc, layerStep, eventHandle, frameLog, drawLog, sinceMutation, failed,
     rnd, t_base, disturbCount, lastDisturb, field, fieldBefore, fieldArgs,
     wavesBuild, upload, anim>>

\* The scene never changes after Initialize outside these.
sceneVars == <<mAllRitems, mRitemLayer, mMaterials, mGeometries>>
bufferVars == <<ObjectCB, MaterialCB, PassCB, WavesVB>>
wavesVars == <<t_base, disturbCount, lastDisturb>>
fieldVars == <<field, fieldBefore, fieldArgs>>
studyVars == <<wavesBuild, upload, anim>>

MaxDeltaTime == 250
DeltaTimes == {0, MaxDeltaTime}

\* What the random number generator hands to one frame: the values of the
\* two rand() calls behind MathHelper::Rand and the magnitude RandF(0.2f,
\* 0.5f) gives.
RandDraw(rawI, rawJ, r) == [i |-> rawI, j |-> rawJ, r |-> r]
SteadyDraw == RandDraw(60, 60, 35)
NoDisturb == [i |-> -1, j |-> -1, r |-> 0]

\* The height field of the wave grid, by the index i * ColumnCount + j of
\* the cell in row i and column j.  Only the cells that are not at rest are
\* held; a cell at rest has height 0.
FlatField == [c \in {} |-> 0]
Height(f, c) == IF c \in DOMAIN f THEN f[c] ELSE 0

\* FrameResource::Fence of a frame resource no Draw has stamped yet.
InitialFence == 0

\* BuildFrameResources: every buffer sized from the registries, nothing
\* copied yet.
BuildFrameResources(items, mats) ==
   [Fence |-> [fr \in FrameIndices |-> InitialFence],
    ObjectCB |-> [fr \in FrameIndices |->
                    [s \in 0..(Len(items) - 1) |-> UninitObjectConstants]],
    MaterialCB |-> [fr \in FrameIndices |->
                      [s \in 0..(Cardinality(DOMAIN mats) - 1) |-> UninitMaterialConstants]],
    PassCB |-> [fr \in FrameIndices |-> UninitPassConstants],
    WavesVB |-> [fr \in FrameIndices |-> UninitWavesVB]]

\* The state Initialize leaves: the scene built, the command queue flushed.
InitApp ==
   LET geos == BuildGeometries
       mats == BuildMaterials
       ritems == BuildRenderItems(geos)
       frs == BuildFrameResources(ritems.mAllRitems, mats)
   IN /\ mGeometries = geos
      /\ mMaterials = mats
      /\ mAllRitems = ritems.mAllRitems
      /\ mRitemLayer = ritems.mRitemLayer
      /\ Fence = frs.Fence
      /\ ObjectCB = frs.ObjectCB
      /\ MaterialCB = frs.MaterialCB
      /\ PassCB = frs.PassCB
      /\ WavesVB = frs.WavesVB
      /\ mCurrFrameResourceIndex = 0
      /\ mCurrentFence \in 1..MaxInitFence
      /\ completedValue = mCurrentFence
      /\ commandQueue = <<>>
      /\ mCommandList = <<>>
      /\ gtDeltaTime = 0
      /\ gtTotalTime = 0
      /\ pc = "idle"
      /\ layerStep = 0
      /\ eventHandle = "none"
      /\ frameLog = <<>>
      /\ drawLog = <<>>
      /\ sinceMutation = [n \in MaterialNames |-> 0]
      /\ failed = {}
      /\ rnd = SteadyDraw
      /\ t_base = 0
      /\ disturbCount = 0
      /\ lastDisturb = NoDisturb
      /\ field = FlatField
      /\ fieldBefore = FlatField
      /\ fieldArgs = <<NoDisturb>>


\* The largest grid the index loop is run on by itself.
MaxGridSize == 5
GridSizes == 1..MaxGridSize

\* Waves::TriangleCount of an m x n grid.
GridTriangleCount(m, n) == (m - 1) * (n - 1) * 2

\* std::uint16_t
Uint16(x) == x % 65536

\* BuildWavesGeometry before its loop: the index vector sized and zeroed, the
\* loop counters at 0.
WavesLoopBegin(m, n) ==
   [m |-> m, n |-> n, i |-> 0, j |-> 0, k |-> 0,
    indices |-> [x \in 1..(3 * GridTriangleCount(m, n)) |-> 0]]

\* Faulty variant: rows are taken to be m vertices long.
QuadIndicesRowCountStride(i, j, m, n) ==
   <<Uint16(i * m + j), Uint16(i * m + j + 1), Uint16((i + 1) * m + j),
     Uint16((i + 1) * m + j), Uint16(i * m + j + 1), Uint16((i + 1) * m + j + 1)>>

\* The six indices the loop body stores for the quad (i, j).
QuadIndices(i, j, m, n) ==
   <<Uint16(i * n + j), Uint16(i * n + j + 1), Uint16((i + 1) * n + j),
     Uint16((i + 1) * n + j), Uint16(i * n + j + 1), Uint16((i + 1) * n + j + 1)>>

\* The index loop has run to its end.
WavesLoopDone(b) == ~(b.i < b.m - 1)

\* One step of the two loops: the body for the quad (i, j) and ++j, or the
\* end of the inner loop and ++i.
WavesLoopStep(b) ==
   IF b.j < b.n - 1
   THEN LET six == QuadIndices(b.i, b.j, b.m, b.n)
        IN [b EXCEPT !.indices = [x \in DOMAIN b.indices |->
                                    IF x \in (b.k + 1)..(b.k + 6)
                                    THEN six[x - b.k] ELSE b.indices[x]],
                     !.k = b.k + 6,
                     !.j = b.j + 1]
   ELSE [b EXCEPT !.i = b.i + 1, !.j = 0]

\* The largest element and the most slots a constant buffer is addressed
\* with by itself.
MaxByteSize == 300
MaxElementCount == 3

\* Faulty variant: the slots are taken to be one element apart.
CbSlotAddressUnpadded(base, index, byteSize) ==
   base + index * byteSize

\* DrawRenderItems: the address of slot `index` of the constant buffer at
\* `base` whose elements are byteSize bytes long.
CbSlotAddress(base, index, byteSize) ==
   base + index * CalcConstantBufferByteSize(byteSize)

\* UploadBuffer::UploadBuffer: the size of a constant buffer of elementCount
\* elements.
UploadBufferSize(byteSize, elementCount) ==
   CalcConstantBufferByteSize(byteSize) * elementCount

\* A constant buffer none of whose slots has been addressed yet.
UploadBegin(base, byteSize, elementCount) ==
   [base |-> base, byteSize |-> byteSize, elementCount |-> elementCount,
    addresses |-> <<>>]

\* The address of the next slot is computed.
UploadAddressNext(u) ==
   [u EXCEPT !.addresses =
       Append(u.addresses, CbSlotAddress(u.base, Len(u.addresses), u.byteSize))]

NoUpload == UploadBegin(GetGPUVirtualAddress("ObjectCB", 0), SizeofObjectConstants, 1)

\* AnimateMaterials by itself: the longest frame time with 0.1 * dt < 1, a
\* frame time beyond it, and the number of calls in a row.
MaxAnimDeltaTime == 999
LongDeltaTime == 15 * FixedOne
MaxAnimSteps == 3
AnimDeltaTimes == {0, 1, MaxDeltaTime, MaxAnimDeltaTime, LongDeltaTime}

\* The scroll offsets the water material starts a run with.
ScrollStarts == {0, FixedOne \div 2, FixedOne - 1}

\* The material registry with the water material scrolled to (tu, tv).
WithScroll(mats, tu, tv) ==
   [mats EXCEPT !["water"].MatTransform[4][1] = tu,
                !["water"].MatTransform[4][2] = tv]

\* The materials before the first call of a run.
AnimBegin(mats) == [mats |-> mats, before |-> mats, dt |-> 0, steps |-> 0]

\* The variables of the functions studied on their own, at rest.
InitStudy ==
   /\ wavesBuild = WavesLoopBegin(1, 1)
   /\ upload = NoUpload
   /\ anim = AnimBegin(BuildMaterials)

Init == InitApp /\ InitStudy
----------------------------------------------------------------------------
(* The per-frame update pass.                                              *)

mWavesRitem == 1

\* Faulty variant: wraps one slot early, so the last frame resource is never
\* used.
NextFrameResourceIndexShort(i) ==
   IF i + 1 >= gNumFrameResources - 1 THEN 0 ELSE i + 1

\* Update, "Cycle through the circular frame resource array".
NextFrameResourceIndex(i) == (i + 1) % gNumFrameResources

\* Faulty variant: lets the GPU be one fence value short.
NeedsWaitLenient(fence, completed) == fence # 0 /\ completed < fence - 1

\* Faulty variant: never waits for the GPU.
NeedsWaitNever(fence, completed) == FALSE

\* Faulty variant: also waits when the fence has just reached the value.
NeedsWaitAtFence(fence, completed) == fence # 0 /\ completed <= fence

\* Update: has the GPU not yet finished the commands of this frame resource?
NeedsWait(fence, completed) == fence # 0 /\ completed < fence

\* a * b for fixed-point a and b
FixedMul(a, b) == (a * b) \div FixedOne

\* Faulty variant: the offset is never brought back below 1.
ScrollOffsetNoWrap(t, rate, dt) == t + FixedMul(rate, dt)

\* The water material's scroll offset after one step of `rate` per second.
ScrollOffset(t, rate, dt) ==
   LET t1 == t + FixedMul(rate, dt)
   IN IF t1 >= FixedOne THEN t1 - FixedOne ELSE t1

\* 0.1f and 0.02f
ScrollRateU == 10
ScrollRateV == 2

\* Faulty variant: scrolls the water material without marking it dirty.
AnimateMaterialsNoReset(mats, dt) ==
   LET waterMat == mats["water"]
       tu == ScrollOffset(waterMat.MatTransform[4][1], ScrollRateU, dt)
       tv == ScrollOffset(waterMat.MatTransform[4][2], ScrollRateV, dt)
   IN [mats EXCEPT !["water"] =
         [waterMat EXCEPT !.MatTransform[4][1] = tu,
                          !.MatTransform[4][2] = tv]]

AnimateMaterials(mats, dt) ==
   LET waterMat == mats["water"]
       tu == ScrollOffset(waterMat.MatTransform[4][1], ScrollRateU, dt)
       tv == ScrollOffset(waterMat.MatTransform[4][2], ScrollRateV, dt)
   IN [mats EXCEPT !["water"] =
         [waterMat EXCEPT !.MatTransform[4][1] = tu,
                          !.MatTransform[4][2] = tv,
                          !.NumFramesDirty = gNumFrameResources]]

\* The last of the dirty items that copies into slot s, 0 if none does.
LastDirtyWriter(items, s) ==
   LET ws == {i \in 1..Len(items) :
                items[i].NumFramesDirty > 0 /\ items[i].ObjCBIndex = s}
   IN IF ws = {} THEN 0 ELSE CHOOSE i \in ws : \A j \in ws : j <= i

\* Faulty variant: treats NumFramesDirty as a flag that the first copy clears.
UpdateObjectCBsFlag(items, currObjectCB) ==
   [items |-> [i \in 1..Len(items) |->
                 IF items[i].NumFramesDirty > 0
                 THEN [items[i] EXCEPT !.NumFramesDirty = 0]
                 ELSE items[i]],
    cb |-> [s \in DOMAIN currObjectCB |->
              LET w == LastDirtyWriter(items, s)
              IN IF w = 0 THEN currObjectCB[s] ELSE ObjectConstants(items[w])]]

\* Faulty variant: copies a dirty item without counting the copy.
UpdateObjectCBsNoCount(items, currObjectCB) ==
   [items |-> items,
    cb |-> [s \in DOMAIN currObjectCB |->
              LET w == LastDirtyWriter(items, s)
              IN IF w = 0 THEN currObjectCB[s] ELSE ObjectConstants(items[w])]]

UpdateObjectCBs(items, currObjectCB) ==
   [items |-> [i \in 1..Len(items) |->
                 IF items[i].NumFramesDirty > 0
                 THEN [items[i] EXCEPT !.NumFramesDirty = @ - 1]
                 ELSE items[i]],
    cb |-> [s \in DOMAIN currObjectCB |->
              LET w == LastDirtyWriter(items, s)
              IN IF w = 0 THEN currObjectCB[s] ELSE ObjectConstants(items[w])]]

\* Faulty variant: copies and decrements whatever the counter reads.
UpdateMaterialCBsUnguarded(mats, currMaterialCB) ==
   [mats |-> [n \in DOMAIN mats |-> [mats[n] EXCEPT !.NumFramesDirty = @ - 1]],
    cb |-> [s \in DOMAIN currMaterialCB |->
              LET ws == {n \in DOMAIN mats : mats[n].MatCBIndex = s}
              IN IF ws = {} THEN currMaterialCB[s]
                 ELSE MaterialConstants(mats[CHOOSE n \in ws : TRUE])]]

UpdateMaterialCBs(mats, currMaterialCB) ==
   [mats |-> [n \in DOMAIN mats |->
                IF mats[n].NumFramesDirty > 0
                THEN [mats[n] EXCEPT !.NumFramesDirty = @ - 1]
                ELSE mats[n]],
    cb |-> [s \in DOMAIN currMaterialCB |->
              LET ws == {n \in DOMAIN mats :
                           mats[n].NumFramesDirty > 0 /\ mats[n].MatCBIndex = s}
              IN IF ws = {} THEN currMaterialCB[s]
                 ELSE MaterialConstants(mats[CHOOSE n \in ws : TRUE])]]

\* Faulty variant: the total time is that of the frame before.
UpdateMainPassCBLate(totalTime, deltaTime) ==
   [TotalTime |-> totalTime - deltaTime, DeltaTime |-> deltaTime]

UpdateMainPassCB(totalTime, deltaTime) ==
   [TotalTime |-> totalTime, DeltaTime |-> deltaTime]

Min(a, b) == IF a < b THEN a ELSE b

\* MathHelper::Rand(a, b) on the value raw of rand().
Rand(a, b, raw) == a + (raw % ((b - a) + 1))

\* 0.25f
QuarterSecond == 25

\* UpdateWaves, "Every quarter second, generate a random wave": is a wave
\* due?
WaveDue(totalTime, tBase) == totalTime - tBase >= QuarterSecond

\* Faulty variant: any cell of the grid.
DisturbCellAnywhere(draw) ==
   [i |-> Rand(0, WavesRowCount - 1, draw.i),
    j |-> Rand(0, WavesColumnCount - 1, draw.j),
    r |-> draw.r]

\* UpdateWaves: the arguments of mWaves->Disturb.
DisturbCell(draw) ==
   [i |-> Rand(4, WavesRowCount - 5, draw.i),
    j |-> Rand(4, WavesColumnCount - 5, draw.j),
    r |-> draw.r]

\* Faulty variant: one dynamic vertex buffer, that of the first frame
\* resource, for all frames.
CurrWavesVBShared(fr) == <<"WavesVB", 0>>

\* UpdateWaves: currWavesVB->Resource() of frame resource fr.
CurrWavesVB(fr) == <<"WavesVB", fr>>

\* Update from AnimateMaterials on, in frame number `frame`, on frame
\* resource fr.
UpdateBody(fr, dt, totalTime, frame) ==
   LET animated == AnimateMaterials(mMaterials, dt)
       obj == UpdateObjectCBs(mAllRitems, ObjectCB[fr])
       mat == UpdateMaterialCBs(animated, MaterialCB[fr])
   IN /\ mAllRitems' = obj.items
      /\ ObjectCB' = [ObjectCB EXCEPT ![fr] = obj.cb]
      /\ mMaterials' = mat.mats
      /\ MaterialCB' = [MaterialCB EXCEPT ![fr] = mat.cb]
      /\ PassCB' = [PassCB EXCEPT ![fr] = UpdateMainPassCB(totalTime, dt)]
      \* UpdateWaves
      /\ WavesVB' = [WavesVB EXCEPT ![fr] = frame]
      /\ mGeometries' =
            [mGeometries EXCEPT ![mAllRitems[mWavesRitem].Geo].VertexBufferGPU =
                                   CurrWavesVB(fr)]
      /\ t_base' = IF WaveDue(totalTime, t_base)
                   THEN t_base + QuarterSecond ELSE t_base
      /\ disturbCount' = IF WaveDue(totalTime, t_base)
                         THEN disturbCount + 1 ELSE disturbCount
      /\ lastDisturb' = IF WaveDue(totalTime, t_base)
                        THEN DisturbCell(rnd') ELSE lastDisturb
      /\ sinceMutation' =
            [n \in MaterialNames |->
               IF MaterialConstants(animated[n]) # MaterialConstants(mMaterials[n])
               THEN 1
               ELSE Min(gNumFrameResources, sinceMutation[n] + 1)]
      /\ pc' = "updated"
      /\ UNCHANGED mRitemLayer

\* Update up to the wait.  dt is the frame's delta time; createOk and setOk
\* say whether CreateEventEx and SetEventOnCompletion succeed.
UpdateBegin(dt, draw, createOk, setOk) ==
   /\ pc = "idle"
   /\ Len(frameLog) < MaxFrames
   /\ LET next == NextFrameResourceIndex(mCurrFrameResourceIndex)
          wait == NeedsWait(Fence[next], completedValue)
          entry == [fr |-> next, fence |-> Fence[next],
                    completed |-> completedValue,
                    waits |-> IF wait /\ setOk THEN 1 ELSE 0]
          createFailed == IF createOk THEN {} ELSE {"CreateEventEx"}
      IN /\ mCurrFrameResourceIndex' = next
         /\ gtDeltaTime' = dt
         /\ rnd' = draw
         /\ gtTotalTime' = gtTotalTime + dt
         /\ frameLog' = Append(frameLog, entry)
         /\ IF ~wait
            THEN /\ UpdateBody(next, dt, gtTotalTime + dt, Len(frameLog) + 1)
                 /\ UNCHANGED <<eventHandle, failed>>
            ELSE /\ IF setOk
                    THEN \* blocks: in WaitForSingleObject, or with a null
                         \* event in SetEventOnCompletion itself
                         /\ pc' = "waiting"
                         /\ eventHandle' = IF createOk THEN "valid" ELSE "null"
                         /\ failed' = failed \cup createFailed
                    ELSE \* ThrowIfFailed
                         /\ pc' = "fatal"
                         /\ failed' = failed \cup createFailed \cup {"SetEventOnCompletion"}
                         /\ UNCHANGED eventHandle
                 /\ UNCHANGED <<sceneVars, bufferVars, sinceMutation, wavesVars>>
   /\ UNCHANGED <<Fence, mCurrentFence, mCommandList, completedValue,
                  commandQueue, layerStep, drawLog, fieldVars, studyVars>>

\* The fence has reached the awaited value: the wait is over, Update goes on.
\* WaitForSingleObject on a null event fails, and Update goes on as well.
WaitReturn ==
   /\ pc = "waiting"
   /\ completedValue >= Fence[mCurrFrameResourceIndex]
   /\ failed' = IF eventHandle = "null"
                THEN failed \cup {"WaitForSingleObject"} ELSE failed
   /\ eventHandle' = "none"
   /\ rnd' = rnd
   /\ UpdateBody(mCurrFrameResourceIndex, gtDeltaTime, gtTotalTime, Len(frameLog))
   /\ UNCHANGED <<mCurrFrameResourceIndex, Fence, mCurrentFence, mCommandList,
                  gtDeltaTime, gtTotalTime, completedValue, commandQueue,
                  layerStep, frameLog, drawLog, fieldVars, studyVars>>

----------------------------------------------------------------------------
(* Draw.                                                                   *)

\* Faulty variant: the layers in the numeric order of RenderLayer.
DrawSequenceEnumOrder ==
   << [pso |-> "opaque", layer |-> Opaque],
      [pso |-> "transparent", layer |-> Transparent],
      [pso |-> "alphaTested", layer |-> AlphaTested],
      [pso |-> "treeSprites", layer |-> AlphaTestedTreeSprites] >>

\* The DrawRenderItems calls of Draw, in order, with the pipeline state each
\* runs under.
DrawSequence ==
   << [pso |-> "opaque", layer |-> Opaque],
      [pso |-> "alphaTested", layer |-> AlphaTested],
      [pso |-> "treeSprites", layer |-> AlphaTestedTreeSprites],
      [pso |-> "transparent", layer |-> Transparent] >>

\* Faulty variant: addresses the object constants by the position in the
\* list instead of the item's ObjCBIndex.
DrawItemByPosition(ri, i, fr) ==
   [op |-> "DrawIndexedInstanced",
    VertexBuffer |-> mGeometries[ri.Geo].VertexBufferGPU,
    IndexBuffer |-> mGeometries[ri.Geo].IndexBufferGPU,
    PrimitiveTopology |-> ri.PrimitiveType,
    DescriptorTable |->
       DescriptorHandleOffset(SrvHeapStart, mMaterials[ri.Mat].DiffuseSrvHeapIndex,
                              mCbvSrvDescriptorSize),
    ObjCBAddress |->
       GetGPUVirtualAddress("ObjectCB", fr)
         + (i - 1) * CalcConstantBufferByteSize(SizeofObjectConstants),
    MatCBAddress |->
       GetGPUVirtualAddress("MaterialCB", fr)
         + mMaterials[ri.Mat].MatCBIndex
             * CalcConstantBufferByteSize(SizeofMaterialConstants),
    IndexCount |-> ri.IndexCount,
    StartIndexLocation |-> ri.StartIndexLocation,
    BaseVertexLocation |-> ri.BaseVertexLocation]

\* What DrawRenderItems records for one render item.
DrawItem(ri, i, fr) ==
   [op |-> "DrawIndexedInstanced",
    VertexBuffer |-> mGeometries[ri.Geo].VertexBufferGPU,
    IndexBuffer |-> mGeometries[ri.Geo].IndexBufferGPU,
    PrimitiveTopology |-> ri.PrimitiveType,
    DescriptorTable |->
       DescriptorHandleOffset(SrvHeapStart, mMaterials[ri.Mat].DiffuseSrvHeapIndex,
                              mCbvSrvDescriptorSize),
    ObjCBAddress |->
       GetGPUVirtualAddress("ObjectCB", fr)
         + ri.ObjCBIndex * CalcConstantBufferByteSize(SizeofObjectConstants),
    MatCBAddress |->
       GetGPUVirtualAddress("MaterialCB", fr)
         + mMaterials[ri.Mat].MatCBIndex
             * CalcConstantBufferByteSize(SizeofMaterialConstants),
    IndexCount |-> ri.IndexCount,
    StartIndexLocation |-> ri.StartIndexLocation,
    BaseVertexLocation |-> ri.BaseVertexLocation]

DrawRenderItems(ritems, fr) ==
   [i \in 1..Len(ritems) |-> DrawItem(mAllRitems[ritems[i]], i, fr)]

\* Draw up to the first DrawRenderItems: the allocator and the command list
\* are reset, the pass constants bound.
DrawBegin ==
   /\ pc = "updated"
   /\ mCommandList' =
         << [op |-> "Reset", alloc |-> mCurrFrameResourceIndex, pso |-> "opaque"],
            [op |-> "SetGraphicsRootConstantBufferView", slot |-> 2,
             address |-> GetGPUVirtualAddress("PassCB", mCurrFrameResourceIndex)] >>
   /\ pc' = "draw"
   /\ layerStep' = 1
   /\ UNCHANGED <<mCurrFrameResourceIndex, Fence, mCurrentFence, sceneVars,
                  bufferVars, gtDeltaTime, gtTotalTime, completedValue,
                  commandQueue, eventHandle, frameLog, drawLog, sinceMutation,
                  failed, rnd, wavesVars, fieldVars, studyVars>>

\* Faulty variant: drawing an item counts as one more frame resource updated.
DrawLayerMarksClean ==
   /\ pc = "draw"
   /\ layerStep <= Len(DrawSequence)
   /\ LET d == DrawSequence[layerStep]
          setPso == IF layerStep = 1 THEN <<>>
                    ELSE << [op |-> "SetPipelineState", pso |-> d.pso] >>
          drawn == {mRitemLayer[d.layer][k] : k \in 1..Len(mRitemLayer[d.layer])}
      IN /\ mCommandList' =
               mCommandList \o setPso
                 \o DrawRenderItems(mRitemLayer[d.layer], mCurrFrameResourceIndex)
         /\ mAllRitems' =
               [i \in 1..Len(mAllRitems) |->
                  IF i \in drawn /\ mAllRitems[i].NumFramesDirty > 0
                  THEN [mAllRitems[i] EXCEPT !.NumFramesDirty = @ - 1]
                  ELSE mAllRitems[i]]
   /\ layerStep' = layerStep + 1
   /\ UNCHANGED <<mCurrFrameResourceIndex, Fence, mCurrentFence, mRitemLayer,
                  mMaterials, mGeometries,
                  bufferVars, gtDeltaTime, gtTotalTime, completedValue,
                  commandQueue, pc, eventHandle, frameLog, drawLog,
                  sinceMutation, failed, rnd, wavesVars, fieldVars, studyVars>>

\* One layer of Draw: SetPipelineState (the first layer runs under the state
\* given to Reset) and DrawRenderItems.
DrawLayer ==
   /\ pc = "draw"
   /\ layerStep <= Len(DrawSequence)
   /\ LET d == DrawSequence[layerStep]
          setPso == IF layerStep = 1 THEN <<>>
                    ELSE << [op |-> "SetPipelineState", pso |-> d.pso] >>
      IN mCommandList' =
            mCommandList \o setPso
              \o DrawRenderItems(mRitemLayer[d.layer], mCurrFrameResourceIndex)
   /\ layerStep' = layerStep + 1
   /\ UNCHANGED <<mCurrFrameResourceIndex, Fence, mCurrentFence, sceneVars,
                  bufferVars, gtDeltaTime, gtTotalTime, completedValue,
                  commandQueue, pc, eventHandle, frameLog, drawLog,
                  sinceMutation, failed, rnd, wavesVars, fieldVars, studyVars>>

\* Faulty variant: the frame resource is stamped with the counter as it was
\* before the increment (mCurrentFence++).
DrawEndStampsOld(signalOk) ==
   /\ pc = "draw"
   /\ layerStep = Len(DrawSequence) + 1
   /\ LET value == mCurrentFence + 1
          exec == [kind |-> "exec", fr |-> mCommandList[1].alloc, value |-> 0]
          signal == [kind |-> "signal", fr |-> -1, value |-> value]
      IN /\ Fence' = [Fence EXCEPT ![mCurrFrameResourceIndex] = mCurrentFence]
         /\ mCurrentFence' = value
         /\ commandQueue' = IF signalOk THEN commandQueue \o <<exec, signal>>
                            ELSE Append(commandQueue, exec)
         /\ drawLog' = Append(drawLog, [fr |-> mCommandList[1].alloc, fence |-> value])
         /\ failed' = IF signalOk THEN failed ELSE failed \cup {"Signal"}
   /\ pc' = "idle"
   /\ layerStep' = 0
   /\ UNCHANGED <<mCurrFrameResourceIndex, sceneVars, bufferVars, mCommandList,
                  gtDeltaTime, gtTotalTime, completedValue, eventHandle,
                  frameLog, sinceMutation, rnd, wavesVars, fieldVars, studyVars>>

\* The end of Draw: the list is closed and submitted, the frame resource is
\* stamped, the fence signal is queued.  signalOk says whether Signal
\* succeeds; its result is not looked at.
DrawEnd(signalOk) ==
   /\ pc = "draw"
   /\ layerStep = Len(DrawSequence) + 1
   /\ LET value == mCurrentFence + 1
          exec == [kind |-> "exec", fr |-> mCommandList[1].alloc, value |-> 0]
          signal == [kind |-> "signal", fr |-> -1, value |-> value]
      IN /\ Fence' = [Fence EXCEPT ![mCurrFrameResourceIndex] = value]
         /\ mCurrentFence' = value
         /\ commandQueue' = IF signalOk THEN commandQueue \o <<exec, signal>>
                            ELSE Append(commandQueue, exec)
         /\ drawLog' = Append(drawLog, [fr |-> mCommandList[1].alloc, fence |-> value])
         /\ failed' = IF signalOk THEN failed ELSE failed \cup {"Signal"}
   /\ pc' = "idle"
   /\ layerStep' = 0
   /\ UNCHANGED <<mCurrFrameResourceIndex, sceneVars, bufferVars, mCommandList,
                  gtDeltaTime, gtTotalTime, completedValue, eventHandle,
                  frameLog, sinceMutation, rnd, wavesVars, fieldVars, studyVars>>

----------------------------------------------------------------------------
(* The GPU: it takes the work of the command queue in submission order; a  *)
(* signal sets the fence.                                                  *)

GpuStep ==
   /\ commandQueue # <<>>
   /\ completedValue' = IF Head(commandQueue).kind = "signal"
                        THEN Head(commandQueue).value ELSE completedValue
   /\ commandQueue' = Tail(commandQueue)
   /\ UNCHANGED <<mCurrFrameResourceIndex, Fence, mCurrentFence, sceneVars,
                  bufferVars, mCommandList, gtDeltaTime, gtTotalTime, pc,
                  layerStep, eventHandle, frameLog, drawLog, sinceMutation,
                  failed, rnd, wavesVars, fieldVars, studyVars>>

\* The frame loop with a device that works (every fence operation
\* succeeds), at a steady frame time.
UpdateStep == UpdateBegin(MaxDeltaTime, SteadyDraw, TRUE, TRUE)

\* Faulty variant: the signal is never queued.
DrawEndStepNoSignal == DrawEnd(FALSE)

DrawEndStep == DrawEnd(TRUE)

Next ==
   \/ UpdateStep
   \/ WaitReturn
   \/ DrawBegin
   \/ DrawLayer
   \/ DrawEndStep
   \/ GpuStep

Spec == Init /\ [][Next]_vars

\* A frame that has begun goes on: a wait whose event is set returns, Draw
\* follows Update and runs to its end.
FrameContinues == WaitReturn \/ DrawBegin \/ DrawLayer \/ DrawEndStep

NextLive == UpdateStep \/ FrameContinues \/ GpuStep

\* The frame loop with a GPU that eventually completes whatever is at the
\* head of its queue, and a CPU thread that runs every frame it begins to
\* the end of Draw unless it is blocked.
SpecLive ==
   Init /\ [][NextLive]_vars /\ WF_vars(GpuStep) /\ WF_vars(FrameContinues)

\* The same with a frame time that varies: time may stand still for a frame.
UpdateStepTimed ==
   \E dt \in DeltaTimes : UpdateBegin(dt, SteadyDraw, TRUE, TRUE)

NextTimed ==
   \/ UpdateStepTimed
   \/ WaitReturn
   \/ DrawBegin
   \/ DrawLayer
   \/ DrawEndStep
   \/ GpuStep

SpecTimed == Init /\ [][NextTimed]_vars

\* The same with frames short and long against the quarter second of the
\* wave trigger, and with the random number generator at both ends of its
\* range.
WaveFrames ==
   { [dt |-> 10, draw |-> RandDraw(0, 119, 20)],
     [dt |-> 60, draw |-> RandDraw(119, 0, 50)] }

UpdateStepWaves ==
   \E f \in WaveFrames : UpdateBegin(f.dt, f.draw, TRUE, TRUE)

NextWaves ==
   \/ UpdateStepWaves
   \/ WaitReturn
   \/ DrawBegin
   \/ DrawLayer
   \/ DrawEndStep
   \/ GpuStep

SpecWaves == Init /\ [][NextWaves]_vars

----------------------------------------------------------------------------
(* Waves::Disturb on its own.                                              *)

\* Faulty variant: the neighbours in the row are taken one row away.
DisturbWrongStride(f, i, j, magnitude) ==
   LET halfMag == magnitude \div 2
       at == i * WavesColumnCount + j
       add == (at :> magnitude) @@ ((at + WavesColumnCount) :> halfMag)
                 @@ ((at - WavesColumnCount) :> halfMag)
   IN [c \in DOMAIN f \cup DOMAIN add |->
         Height(f, c) + (IF c \in DOMAIN add THEN add[c] ELSE 0)]

\* Waves::Disturb(i, j, magnitude): the magnitude is added to the height of
\* the cell, half of it to each of its four neighbours.
Disturb(f, i, j, magnitude) ==
   LET halfMag == magnitude \div 2
       at == i * WavesColumnCount + j
       add == (at :> magnitude) @@ ((at + 1) :> halfMag) @@ ((at - 1) :> halfMag)
                 @@ ((at + WavesColumnCount) :> halfMag)
                 @@ ((at - WavesColumnCount) :> halfMag)
   IN [c \in DOMAIN f \cup DOMAIN add |->
         Height(f, c) + (IF c \in DOMAIN add THEN add[c] ELSE 0)]

\* Number of Disturb calls applied in a row.
MaxDisturbs == 2

\* The values of rand() and RandF tried: both ends of the range and the
\* middle.
DisturbDraws ==
   {RandDraw(rawI, rawJ, r) : rawI \in {0, 60, 119}, rawJ \in {0, 60, 119},
                              r \in {20, 50}}

\* One Disturb call with the arguments UpdateWaves gives it.
DisturbStep ==
   /\ Len(fieldArgs) <= MaxDisturbs
   /\ \E draw \in DisturbDraws :
         LET a == DisturbCell(draw)
         IN /\ field' = Disturb(field, a.i, a.j, a.r)
            /\ fieldBefore' = field
            /\ fieldArgs' = Append(fieldArgs, a)
   /\ UNCHANGED <<mCurrFrameResourceIndex, Fence, mCurrentFence, sceneVars,
                  bufferVars, mCommandList, gtDeltaTime, gtTotalTime,
                  completedValue, commandQueue, pc, layerStep, eventHandle,
                  frameLog, drawLog, sinceMutation, failed, rnd, wavesVars,
                  studyVars>>

NextDisturb == DisturbStep

SpecDisturb == Init /\ [][NextDisturb]_vars

\* The frame loop with fence operations that may fail, at a steady frame
\* time.
UpdateStepFail ==
   \E createOk, setOk \in BOOLEAN :
      UpdateBegin(MaxDeltaTime, SteadyDraw, createOk, setOk)
DrawEndStepFail == \E signalOk \in BOOLEAN : DrawEnd(signalOk)

NextFail ==
   \/ UpdateStepFail
   \/ WaitReturn
   \/ DrawBegin
   \/ DrawLayer
   \/ DrawEndStepFail
   \/ GpuStep

SpecFail == Init /\ [][NextFail]_vars


\* BuildWavesGeometry's index loop on its own, on every grid up to
\* MaxGridSize x MaxGridSize.
InitGrid ==
   /\ InitApp
   /\ \E m, n \in GridSizes : wavesBuild = WavesLoopBegin(m, n)
   /\ upload = NoUpload
   /\ anim = AnimBegin(BuildMaterials)

GridStep ==
   /\ ~WavesLoopDone(wavesBuild)
   /\ wavesBuild' = WavesLoopStep(wavesBuild)
   /\ UNCHANGED <<mCurrFrameResourceIndex, Fence, mCurrentFence, sceneVars,
                  bufferVars, mCommandList, gtDeltaTime, gtTotalTime,
                  completedValue, commandQueue, pc, layerStep, eventHandle,
                  frameLog, drawLog, sinceMutation, failed, rnd, wavesVars,
                  fieldVars, upload, anim>>

NextGrid == GridStep

SpecGrid == InitGrid /\ [][NextGrid]_vars

\* The addressing of a constant buffer on its own, for every element size up
\* to MaxByteSize and every slot count up to MaxElementCount, at the base
\* address of an object and of a material constant buffer.
InitUpload ==
   /\ InitApp
   /\ \E byteSize \in 1..MaxByteSize, elementCount \in 1..MaxElementCount,
         base \in {GetGPUVirtualAddress("ObjectCB", 0),
                   GetGPUVirtualAddress("MaterialCB", gNumFrameResources - 1)} :
         upload = UploadBegin(base, byteSize, elementCount)
   /\ wavesBuild = WavesLoopBegin(1, 1)
   /\ anim = AnimBegin(BuildMaterials)

UploadStep ==
   /\ Len(upload.addresses) < upload.elementCount
   /\ upload' = UploadAddressNext(upload)
   /\ UNCHANGED <<mCurrFrameResourceIndex, Fence, mCurrentFence, sceneVars,
                  bufferVars, mCommandList, gtDeltaTime, gtTotalTime,
                  completedValue, commandQueue, pc, layerStep, eventHandle,
                  frameLog, drawLog, sinceMutation, failed, rnd, wavesVars,
                  fieldVars, wavesBuild, anim>>

NextUpload == UploadStep

SpecUpload == InitUpload /\ [][NextUpload]_vars

\* AnimateMaterials on its own, from every pair of scroll offsets in
\* ScrollStarts, with the frame times of AnimDeltaTimes.
InitAnimate ==
   /\ InitApp
   /\ \E tu, tv \in ScrollStarts :
         anim = AnimBegin(WithScroll(BuildMaterials, tu, tv))
   /\ wavesBuild = WavesLoopBegin(1, 1)
   /\ upload = NoUpload

AnimateStep ==
   /\ anim.steps < MaxAnimSteps
   /\ \E dt \in AnimDeltaTimes :
         anim' = [mats |-> AnimateMaterials(anim.mats, dt),
                  before |-> anim.mats,
                  dt |-> dt,
                  steps |-> anim.steps + 1]
   /\ UNCHANGED <<mCurrFrameResourceIndex, Fence, mCurrentFence, sceneVars,
                  bufferVars, mCommandList, gtDeltaTime, gtTotalTime,
                  completedValue, commandQueue, pc, layerStep, eventHandle,
                  frameLog, drawLog, sinceMutation, failed, rnd, wavesVars,
                  fieldVars, wavesBuild, upload>>

NextAnimate == AnimateStep

SpecAnimate == InitAnimate /\ [][NextAnimate]_vars
----------------------------------------------------------------------------
(* Properties.                                                             *)

\* The GPU has not yet finished a command list recorded with frame resource fr.
InFlight(fr) ==
   \E k \in 1..Len(commandQueue) :
      commandQueue[k].kind = "exec" /\ commandQueue[k].fr = fr

\* This step copies into a buffer of frame resource fr.
Overwrites(fr) ==
   \/ ObjectCB'[fr] # ObjectCB[fr]
   \/ MaterialCB'[fr] # MaterialCB[fr]
   \/ PassCB'[fr] # PassCB[fr]
   \/ WavesVB'[fr] # WavesVB[fr]

\* This step resets the command allocator of frame resource fr.
ResetsAllocator(fr) ==
   pc = "updated" /\ pc' = "draw" /\ fr = mCurrFrameResourceIndex

\* C1: whenever the CPU overwrites a buffer of a frame resource or resets
\* its command allocator, the fence has reached the value stored in that
\* frame resource, and the GPU is not executing a command list recorded
\* with it.
FenceBeforeReuse ==
   [][\A fr \in FrameIndices :
         (Overwrites(fr) \/ ResetsAllocator(fr))
            => (completedValue >= Fence[fr] /\ ~InFlight(fr))]_vars

\* A frame whose Update had to wait has written its frame resource.
ReuseAfterWait ==
   /\ pc = "updated"
   /\ frameLog[Len(frameLog)].waits = 1
   /\ WavesVB[mCurrFrameResourceIndex] = Len(frameLog)

\* The number of frames whose update pass has run.
UpdatesDone ==
   IF pc \in {"waiting", "fatal"} THEN Len(frameLog) - 1 ELSE Len(frameLog)

\* The frame resources whose object buffer holds the constants of item i.
ObjectCopies(i) ==
   LET constants == ObjectConstants(mAllRitems[i])
   IN {fr \in FrameIndices : ObjectCB[fr][mAllRitems[i].ObjCBIndex] = constants}

\* The frame resources whose material buffer holds the constants of n.
MaterialCopies(n) ==
   LET constants == MaterialConstants(mMaterials[n])
   IN {fr \in FrameIndices : MaterialCB[fr][mMaterials[n].MatCBIndex] = constants}

\* The materials that no update pass changes.
StaticMaterials == MaterialNames \ {"water"}

\* C2: an item or material that starts with its dirty counter at the number
\* of frame resources and is not changed again has, after k update passes,
\* a counter of that number less k; after exactly that many passes every
\* frame resource holds its constants and the counter is 0, and so it stays.
DirtyPropagation ==
   LET k == UpdatesDone
       Settled(dirty, copies) ==
          IF k < gNumFrameResources
          THEN dirty = gNumFrameResources - k /\ copies # FrameIndices
          ELSE dirty = 0 /\ copies = FrameIndices
   IN /\ \A i \in 1..Len(mAllRitems) :
           Settled(mAllRitems[i].NumFramesDirty, ObjectCopies(i))
      /\ \A n \in StaticMaterials :
           Settled(mMaterials[n].NumFramesDirty, MaterialCopies(n))

\* The update pass of the last of the frame resources has just run.
PropagationComplete ==
   /\ pc = "updated"
   /\ UpdatesDone = gNumFrameResources
   /\ \A i \in 1..Len(mAllRitems) :
         mAllRitems[i].NumFramesDirty = 0 /\ ObjectCopies(i) = FrameIndices

\* This step runs the update pass (AnimateMaterials to UpdateWaves).
UpdatePass == pc # "updated" /\ pc' = "updated"

\* C3: the water material is changed while its dirty counter is still above
\* 0; the change sets the counter back to the number of frame resources
\* (the update pass that follows within the same frame takes one off), and
\* once that many update passes have run since the last change no frame
\* resource holds an older value of its constants.
RemutationRestartsPropagation ==
   /\ [][UpdatePass =>
           mMaterials'["water"].NumFramesDirty = gNumFrameResources - 1]_vars
   /\ [](sinceMutation["water"] >= gNumFrameResources
           => MaterialCopies("water") = FrameIndices)

\* The water was scrolled in the first two frames, the second time with its
\* counter above 0, and not since; a full round of update passes has run
\* after that.
RemutationPropagated ==
   /\ UpdatesDone = gNumFrameResources + 1
   /\ sinceMutation["water"] = gNumFrameResources
   /\ mMaterials["water"].MatTransform[4][1] = 2 * FixedMul(ScrollRateU, MaxDeltaTime)
   /\ MaterialCopies("water") = FrameIndices

\* C4: Update blocks exactly when the stored fence of the frame resource it
\* moves to is not 0 and above the completed value at that moment, and at
\* most once per frame.
BlocksOnlyWhenBehind ==
   /\ \A k \in 1..Len(frameLog) :
         LET e == frameLog[k]
         IN /\ e.waits <= 1
            /\ e.waits = 1 <=> (e.fence # 0 /\ e.completed < e.fence)
   /\ pc = "waiting" =>
         /\ frameLog[Len(frameLog)].waits = 1
         /\ frameLog[Len(frameLog)].fence = Fence[mCurrFrameResourceIndex]

\* Update is blocked on a fence value the GPU has not reached.
BlockedBehindGpu ==
   /\ pc = "waiting"
   /\ completedValue < Fence[mCurrFrameResourceIndex]

\* C5: every Update moves the cursor on by one modulo the number of frame
\* resources, frame k runs on frame resource k modulo that number (the first
\* on 1), the Draw of a frame uses the frame resource of its Update, and any
\* that many consecutive frames use distinct frame resources.
FrameResourceCycle ==
   /\ mCurrFrameResourceIndex = Len(frameLog) % gNumFrameResources
   /\ \A k \in 1..Len(frameLog) : frameLog[k].fr = k % gNumFrameResources
   /\ Len(drawLog) <= Len(frameLog)
   /\ \A k \in 1..Len(drawLog) : drawLog[k].fr = frameLog[k].fr
   /\ pc = "draw" => mCommandList[1].alloc = frameLog[Len(frameLog)].fr
   /\ \A j, k \in 1..Len(frameLog) :
         (j < k /\ k < j + gNumFrameResources) => frameLog[j].fr # frameLog[k].fr

\* The cursor has wrapped around and the frame after that has been drawn.
CursorWrapped ==
   /\ Len(drawLog) > gNumFrameResources
   /\ drawLog[gNumFrameResources].fr = 0
   /\ drawLog[gNumFrameResources + 1].fr = 1

\* The pipeline state in effect at position k of the command list.
PsoAt(k) ==
   LET sets == {j \in 1..k : mCommandList[j].op \in {"Reset", "SetPipelineState"}}
   IN mCommandList[CHOOSE j \in sets : \A i \in sets : i <= j].pso

\* The positions of the draw calls recorded under pipeline state p, in order.
DrawsUnder(p) ==
   SelectSeq([k \in 1..Len(mCommandList) |-> k],
             LAMBDA k : mCommandList[k].op = "DrawIndexedInstanced" /\ PsoAt(k) = p)

\* The object constant slot a recorded draw call reads, in frame resource fr.
ObjSlot(cmd, fr) ==
   (cmd.ObjCBAddress - GetGPUVirtualAddress("ObjectCB", fr))
      \div CalcConstantBufferByteSize(SizeofObjectConstants)

\* The pipeline states the command list was put under, in order.
PsoOrder ==
   LET sets == SelectSeq(mCommandList,
                         LAMBDA c : c.op \in {"Reset", "SetPipelineState"})
   IN [k \in 1..Len(sets) |-> sets[k].pso]

\* Draw has recorded all its layers.
AllLayersRecorded == pc = "draw" /\ layerStep = 5

\* C6: every Draw records the layers in the order opaque, alpha tested,
\* alpha tested tree sprites, transparent, each under its own pipeline
\* state, whatever the numeric order of the RenderLayer values.
LayerSubmissionOrder ==
   AllLayersRecorded =>
      /\ PsoOrder = <<"opaque", "alphaTested", "treeSprites", "transparent">>
      /\ \A d \in { <<"opaque", Opaque>>, <<"alphaTested", AlphaTested>>,
                    <<"treeSprites", AlphaTestedTreeSprites>>,
                    <<"transparent", Transparent>> } :
            LET draws == DrawsUnder(d[1])
                layer == mRitemLayer[d[2]]
            IN /\ Len(draws) = Len(layer)
               /\ \A k \in 1..Len(draws) :
                     ObjSlot(mCommandList[draws[k]], mCurrFrameResourceIndex)
                        = mAllRitems[layer[k]].ObjCBIndex

\* The second frame has recorded all four layers, the transparent one last.
AllLayersSubmitted ==
   /\ AllLayersRecorded
   /\ Len(drawLog) = 1
   /\ PsoAt(Len(mCommandList)) = "transparent"
   /\ DrawsUnder("transparent") = <<Len(mCommandList)>>

\* The number of times item i is in the list of layer l.
Occurrences(l, i) ==
   Cardinality({k \in 1..Len(mRitemLayer[l]) : mRitemLayer[l][k] = i})

\* The number of draw calls recorded for item i.
DrawCalls(i) ==
   Cardinality({k \in 1..Len(mCommandList) :
      /\ mCommandList[k].op = "DrawIndexedInstanced"
      /\ ObjSlot(mCommandList[k], mCurrFrameResourceIndex) = mAllRitems[i].ObjCBIndex})

\* C7: the layer lists partition the registry: every item is in exactly
\* one layer list, once, and is drawn once per frame.
LayerPartition ==
   \A i \in 1..Len(mAllRitems) :
      /\ Cardinality({l \in 0..(Count - 1) : Occurrences(l, i) > 0}) = 1
      /\ \A l \in 0..(Count - 1) : Occurrences(l, i) <= 1
      /\ AllLayersRecorded => DrawCalls(i) = 1

\* C8: a failure of any fence operation is fatal.
FenceFailureIsFatal == failed # {} => pc = "fatal"

\* This step is one DrawRenderItems call of Draw.
DrawRenderItemsStep == pc = "draw" /\ pc' = "draw" /\ layerStep' = layerStep + 1

\* The layers in the order Draw is to give them to DrawRenderItems.
SubmittedLayer == <<Opaque, AlphaTested, AlphaTestedTreeSprites, Transparent>>

DrawRenderItemsReadOnly ==
   [][DrawRenderItemsStep =>
        /\ UNCHANGED <<mAllRitems, mMaterials, mGeometries, mRitemLayer,
                       mCurrFrameResourceIndex, Fence, mCurrentFence,
                       ObjectCB, MaterialCB, PassCB, WavesVB>>
        /\ Len(mCommandList') >= Len(mCommandList)
        /\ SubSeq(mCommandList', 1, Len(mCommandList)) = mCommandList]_vars

\* A layer was recorded while items were still dirty: the first Draw, with
\* the opaque layer in the command list.
LayerRecordedWhileDirty ==
   /\ pc = "draw"
   /\ layerStep = 2
   /\ Len(mCommandList) = 2 + Len(mRitemLayer[Opaque])
   /\ \E i \in 1..Len(mAllRitems) : mAllRitems[i].NumFramesDirty > 0

\* The frame resources whose slot does not hold the constants of item i.
StaleObjectCopies(i) == FrameIndices \ ObjectCopies(i)

\* The frame resources whose slot does not hold the constants of material n.
StaleMaterialCopies(n) == FrameIndices \ MaterialCopies(n)

\* What one update pass makes of a dirty counter that reads c when the pass
\* comes to it.
Decremented(c) == IF c > 0 THEN c - 1 ELSE 0

\* C11: every dirty counter stays within 0 and the number of frame
\* resources; the frame resources that do not hold the latest constants of
\* an item or material are at most as many as its counter says (none when
\* it is 0); and an update pass takes exactly one off a counter that is
\* above 0 when the pass comes to it (for a material: after
\* AnimateMaterials) and leaves a counter of 0 alone.
DirtyCounterDiscipline ==
   /\ [](/\ \A i \in 1..Len(mAllRitems) :
              /\ mAllRitems[i].NumFramesDirty \in 0..gNumFrameResources
              /\ Cardinality(StaleObjectCopies(i)) <= mAllRitems[i].NumFramesDirty
         /\ \A n \in MaterialNames :
              /\ mMaterials[n].NumFramesDirty \in 0..gNumFrameResources
              /\ Cardinality(StaleMaterialCopies(n)) <= mMaterials[n].NumFramesDirty)
   /\ [][UpdatePass =>
           /\ \A i \in 1..Len(mAllRitems) :
                 mAllRitems'[i].NumFramesDirty
                    = Decremented(mAllRitems[i].NumFramesDirty)
           /\ \A n \in MaterialNames :
                 mMaterials'[n].NumFramesDirty
                    = Decremented(AnimateMaterials(mMaterials, gtDeltaTime')[n].NumFramesDirty)]_vars

\* An update pass has come to counters of 0 (the grass, an item) and to one
\* above 0 (the water): the frame after the first round of frame resources.
ZeroCounterPassed ==
   /\ pc = "updated"
   /\ UpdatesDone = gNumFrameResources + 1
   /\ mMaterials["grass"].NumFramesDirty = 0
   /\ mAllRitems[1].NumFramesDirty = 0
   /\ mMaterials["water"].NumFramesDirty = gNumFrameResources - 1

\* The recorded draw calls that read a dynamic wave vertex buffer.
WaveDraws ==
   {k \in 1..Len(mCommandList) :
      /\ mCommandList[k].op = "DrawIndexedInstanced"
      /\ mCommandList[k].VertexBuffer[1] = "WavesVB"}

\* The frame whose command list is at position q of the command queue.
FrameOfExec(q) ==
   Len(drawLog)
      - Cardinality({k \in q..Len(commandQueue) : commandQueue[k].kind = "exec"}) + 1

\* C12: every Update rewrites the wave vertex buffer of the current frame
\* resource and points the geometry of the wave render item at it; the
\* wave draw recorded in a frame reads that buffer and no other, and the
\* buffer still holds that frame's vertices when the GPU comes to the
\* frame's command list.
WaveBufferPerFrame ==
   /\ pc \in {"updated", "draw"} =>
         /\ WavesVB[mCurrFrameResourceIndex] = Len(frameLog)
         /\ mGeometries[mAllRitems[mWavesRitem].Geo].VertexBufferGPU
               = <<"WavesVB", mCurrFrameResourceIndex>>
   /\ pc = "draw" =>
         /\ \A k \in WaveDraws :
               mCommandList[k].VertexBuffer = <<"WavesVB", mCurrFrameResourceIndex>>
         /\ layerStep = 5 => Cardinality(WaveDraws) = 1
   /\ \A q \in 1..Len(commandQueue) :
         commandQueue[q].kind = "exec" =>
            /\ drawLog[FrameOfExec(q)].fr = commandQueue[q].fr
            /\ WavesVB[commandQueue[q].fr] = FrameOfExec(q)

\* The wave draw of the frame after the first round of frame resources is
\* recorded, while the frame before it is still with the GPU.
WaveDrawAfterWrap ==
   /\ pc = "draw"
   /\ layerStep = 5
   /\ Len(frameLog) = gNumFrameResources + 1
   /\ WaveDraws = {Len(mCommandList)}
   /\ mCommandList[Len(mCommandList)].VertexBuffer = <<"WavesVB", 1>>
   /\ InFlight(0)

\* The cells Disturb(i, j, r) touches: the cell and its four edge neighbours.
Cross(i, j) == {<<i, j>>, <<i - 1, j>>, <<i + 1, j>>, <<i, j - 1>>, <<i, j + 1>>}

\* The cells of the wave grid.
WaveGrid == (0..(WavesRowCount - 1)) \X (0..(WavesColumnCount - 1))

\* C13: every Disturb call of the wave trigger is given a row within 4 and
\* RowCount - 5 and a column within 4 and ColumnCount - 5, so the cell and
\* its four neighbours are inside the grid.
DisturbInsideGrid ==
   disturbCount > 0 =>
      /\ lastDisturb.i \in 4..(WavesRowCount - 5)
      /\ lastDisturb.j \in 4..(WavesColumnCount - 5)
      /\ Cross(lastDisturb.i, lastDisturb.j) \subseteq WaveGrid

\* The trigger has disturbed the cell nearest to one corner of the grid it
\* can draw.
DisturbAtMargin ==
   /\ disturbCount > 0
   /\ lastDisturb.i = 4
   /\ lastDisturb.j = WavesColumnCount - 5

\* C14: the wave trigger fires every quarter second of total time: after
\* every Update the Disturb calls made so far are as many as the whole
\* quarter seconds of the total time.
WaveEveryQuarterSecond ==
   pc \in {"idle", "updated", "draw"} =>
      disturbCount = gtTotalTime \div QuarterSecond

\* The cells whose height the last Disturb call changed.
ChangedCells ==
   {c \in DOMAIN field \cup DOMAIN fieldBefore :
      Height(field, c) # Height(fieldBefore, c)}

\* The index in the height field of the cell in row i and column j.
CellIndex(i, j) == i * WavesColumnCount + j

\* C15: Disturb(i, j, m) with i and j within 4 and the dimension less 5
\* changes the height of exactly 5 cells, the cell (i, j) and its four edge
\* neighbours, and of no other cell of the height field.  (A cell that is in
\* neither field is at rest before and after the call.)
DisturbChangesFiveCells ==
   LET a == fieldArgs[Len(fieldArgs)]
   IN (/\ Len(fieldArgs) > 1
       /\ a.i \in 4..(WavesRowCount - 5)
       /\ a.j \in 4..(WavesColumnCount - 5))
      => /\ Cardinality(ChangedCells) = 5
         /\ ChangedCells = {CellIndex(c[1], c[2]) : c \in Cross(a.i, a.j)}
         /\ ChangedCells \subseteq 0..(WavesRowCount * WavesColumnCount - 1)

\* A second drop has fallen on the cell of the first, at the margin of
\* the grid: the same five cells change again.
DisturbedTwice ==
   /\ Len(fieldArgs) = 3
   /\ fieldArgs[2].i = 4 /\ fieldArgs[2].j = 4
   /\ fieldArgs[3].i = 4 /\ fieldArgs[3].j = 4
   /\ Cardinality(ChangedCells) = 5
   /\ Cardinality(DOMAIN field) = 5

\* The draw calls of the command list being recorded.
RecordedDraws ==
   {k \in 1..Len(mCommandList) : mCommandList[k].op = "DrawIndexedInstanced"}

\* The material constant slot a recorded draw call reads, in frame resource
\* fr.
MatSlot(cmd, fr) ==
   (cmd.MatCBAddress - GetGPUVirtualAddress("MaterialCB", fr))
      \div CalcConstantBufferByteSize(SizeofMaterialConstants)

\* C16: from the update pass of a frame to the end of its Draw, the current
\* frame resource holds the constants of every render item and of every
\* material as they are after this frame's update, its pass slot holds the
\* pass constants of this frame (its total time and delta time), and every
\* draw call recorded reads slots of the current frame resource: none reads
\* constants older than the latest change.
CurrentConstantsAtDraw ==
   pc \in {"updated", "draw"} =>
      LET fr == mCurrFrameResourceIndex
      IN /\ \A i \in 1..Len(mAllRitems) :
               ObjectCB[fr][mAllRitems[i].ObjCBIndex] = ObjectConstants(mAllRitems[i])
         /\ \A n \in MaterialNames :
               MaterialCB[fr][mMaterials[n].MatCBIndex] = MaterialConstants(mMaterials[n])
         /\ PassCB[fr].TotalTime = gtTotalTime
         /\ PassCB[fr].DeltaTime = gtDeltaTime
         /\ mCommandList # <<>> /\ pc = "draw" =>
               /\ mCommandList[2].address = GetGPUVirtualAddress("PassCB", fr)
               /\ \A k \in RecordedDraws :
                     /\ ObjSlot(mCommandList[k], fr) \in DOMAIN ObjectCB[fr]
                     /\ MatSlot(mCommandList[k], fr) \in DOMAIN MaterialCB[fr]

\* All layers of a frame are recorded whose update changed the water
\* material, on a frame resource used before, whose other copies of the
\* water constants are older.
DrawAfterMutation ==
   /\ AllLayersRecorded
   /\ Len(frameLog) > gNumFrameResources
   /\ sinceMutation["water"] = 1
   /\ MaterialCopies("water") = {mCurrFrameResourceIndex}

\* The frames submitted that the GPU has not completed: the fence has not
\* reached the value their Draw stamped.
IncompleteFrames ==
   {k \in 1..Len(drawLog) : drawLog[k].fence > completedValue}

\* The frames submitted of which the queue still holds the command list or
\* the signal.
QueuedFrames ==
   {k \in 1..Len(drawLog) :
      \E q \in 1..Len(commandQueue) :
         /\ commandQueue[q].kind = "signal"
         /\ commandQueue[q].value = drawLog[k].fence}

\* C17: the CPU is never more than gNumFrameResources frames ahead of the
\* GPU: at most that many submitted frames are incomplete at any time, so
\* after every Draw, and at most one fewer from the moment the update pass
\* writes the buffers of a frame resource until that frame is submitted.
CpuAheadBounded ==
   /\ IncompleteFrames = QueuedFrames
   /\ Cardinality(IncompleteFrames) <= gNumFrameResources
   /\ pc \in {"updated", "draw"} =>
         Cardinality(IncompleteFrames) <= gNumFrameResources - 1

\* The update pass has written a frame resource after the CPU was held back,
\* with as many frames incomplete as there may be.
WrittenAtFullLead ==
   /\ pc = "updated"
   /\ frameLog[Len(frameLog)].waits = 1
   /\ Cardinality(IncompleteFrames) = gNumFrameResources - 1


\* This step is the end of a Draw: the list is submitted, the frame resource
\* stamped, the signal queued.
DrawReturns == pc = "draw" /\ pc' = "idle"

\* The largest fence value stored in a frame resource.
MaxStoredFence ==
   CHOOSE v \in {Fence[fr] : fr \in FrameIndices} :
      \A fr \in FrameIndices : Fence[fr] <= v

\* C18: every Draw raises the CPU fence counter by exactly 1, nothing else
\* changes it; Draw stamps the current frame resource, and no other, with the
\* new value, having put the frame's command list on the queue, and queues a
\* signal of exactly that value behind the list.  So every stored fence is at
\* most the counter, the stored fences other than 0 are pairwise distinct,
\* and the frame resource stamped last holds the largest, the counter itself.
FenceStamping ==
   /\ [][IF DrawReturns
         THEN LET fr == mCurrFrameResourceIndex
                  n == Len(commandQueue')
              IN /\ mCurrentFence' = mCurrentFence + 1
                 /\ Fence' = [Fence EXCEPT ![fr] = mCurrentFence']
                 /\ n = Len(commandQueue) + 2
                 /\ SubSeq(commandQueue', 1, n - 2) = commandQueue
                 /\ commandQueue'[n - 1].kind = "exec"
                 /\ commandQueue'[n - 1].fr = fr
                 /\ commandQueue'[n].kind = "signal"
                 /\ commandQueue'[n].value = mCurrentFence'
         ELSE mCurrentFence' = mCurrentFence /\ Fence' = Fence]_vars
   /\ [](/\ \A fr \in FrameIndices : Fence[fr] <= mCurrentFence
         /\ \A f, g \in FrameIndices :
               f # g /\ Fence[f] # 0 => Fence[f] # Fence[g]
         /\ drawLog # <<>> =>
               /\ Fence[drawLog[Len(drawLog)].fr] = MaxStoredFence
               /\ MaxStoredFence = mCurrentFence)

\* A frame resource has been stamped a second time: all frame resources
\* carry a stamp, and the one stamped last carries the largest.
StampedAgain ==
   /\ pc = "idle"
   /\ Len(drawLog) > gNumFrameResources
   /\ \A fr \in FrameIndices : Fence[fr] # 0
   /\ Fence[mCurrFrameResourceIndex] = mCurrentFence

\* C19: the fence value Update tests in frame k (counted from 1) is 0 in the
\* first gNumFrameResources frames, which never block, and after them the
\* value the Draw of frame k - gNumFrameResources stamped; the CPU blocks
\* only when the fence had not reached that value, the GPU not having
\* finished the frame submitted gNumFrameResources frames earlier.
TestedFenceIsOfFrameBefore ==
   \A k \in 1..Len(frameLog) :
      IF k <= gNumFrameResources
      THEN frameLog[k].fence = 0 /\ frameLog[k].waits = 0
      ELSE LET before == drawLog[k - gNumFrameResources]
           IN /\ frameLog[k].fence = before.fence
              /\ frameLog[k].fr = before.fr
              /\ frameLog[k].waits = 1 <=> frameLog[k].completed < before.fence

\* The first frame on a frame resource used before has blocked: the GPU had
\* not finished the first frame.
BlockedOnFirstFrame ==
   /\ Len(frameLog) = gNumFrameResources + 1
   /\ frameLog[gNumFrameResources + 1].waits = 1
   /\ frameLog[gNumFrameResources + 1].fence = drawLog[1].fence
   /\ pc = "updated"

\* The signal of value v is on the queue.
SignalQueued(v) ==
   \E q \in 1..Len(commandQueue) :
      commandQueue[q].kind = "signal" /\ commandQueue[q].value = v

\* C20: with a GPU that eventually completes every command list and signal
\* submitted, in submission order, every wait in Update returns, and every
\* frame begun completes its Update and its Draw: the frame loop is back
\* where the next frame can begin.  The value awaited has been reached or
\* its signal is on the queue, from before the wait began.
FramesComplete ==
   /\ [](pc = "waiting" =>
            \/ completedValue >= Fence[mCurrFrameResourceIndex]
            \/ SignalQueued(Fence[mCurrFrameResourceIndex]))
   /\ (pc = "waiting") ~> (pc = "updated")
   /\ (pc # "idle") ~> (pc = "idle")

\* Every frame begun has been drawn and the GPU has completed all of them;
\* one of them had blocked in Update.
AllFramesDone ==
   /\ pc = "idle"
   /\ commandQueue = <<>>
   /\ Len(drawLog) > gNumFrameResources
   /\ Len(drawLog) = Len(frameLog)
   /\ completedValue = mCurrentFence
   /\ \E k \in 1..Len(frameLog) : frameLog[k].waits = 1

\* The render items UpdateObjectCBs copies when it runs next: the dirty ones.
DirtyItems == {i \in 1..Len(mAllRitems) : mAllRitems[i].NumFramesDirty > 0}

\* C21: no step of the frame loop changes the World or TexTransform of a
\* render item or raises its dirty counter; once gNumFrameResources update
\* passes have run every item's counter is 0 and remains 0, and from then on
\* UpdateObjectCBs copies no item and the object buffer of every frame
\* resource stays as it is.
RenderItemsSettle ==
   /\ [][/\ Len(mAllRitems') = Len(mAllRitems)
         /\ \A i \in 1..Len(mAllRitems) :
               /\ mAllRitems'[i].World = mAllRitems[i].World
               /\ mAllRitems'[i].TexTransform = mAllRitems[i].TexTransform
               /\ mAllRitems'[i].NumFramesDirty <= mAllRitems[i].NumFramesDirty]_vars
   /\ [](UpdatesDone >= gNumFrameResources => DirtyItems = {})
   /\ [][UpdatesDone >= gNumFrameResources => ObjectCB' = ObjectCB]_vars

\* An update pass has run with every render item clean: the frame after the
\* last copy.
UpdateWithCleanItems ==
   /\ pc = "updated"
   /\ UpdatesDone = gNumFrameResources + 1
   /\ DirtyItems = {}
   /\ \A i \in 1..Len(mAllRitems) : ObjectCopies(i) = FrameIndices

\* C22: AnimateMaterials sets the water material's dirty counter to
\* gNumFrameResources in every update pass before UpdateMaterialCBs takes one
\* off: the counter is gNumFrameResources - 1 after every update pass and
\* never 0, and every update pass writes the water constants anew into the
\* current frame resource.  The counter of every other material goes down by
\* one per update pass, is 0 after gNumFrameResources of them and stays 0.
WaterAlwaysDirty ==
   /\ [][UpdatePass =>
           LET fr == mCurrFrameResourceIndex'
               slot == mMaterials'["water"].MatCBIndex
           IN /\ mMaterials'["water"].NumFramesDirty = gNumFrameResources - 1
              /\ MaterialCB'[fr][slot] = MaterialConstants(mMaterials'["water"])
              /\ MaterialCB'[fr][slot] # MaterialCB[fr][slot]]_vars
   /\ [](/\ mMaterials["water"].NumFramesDirty > 0
         /\ UpdatesDone > 0 =>
               mMaterials["water"].NumFramesDirty = gNumFrameResources - 1
         /\ \A n \in StaticMaterials :
               mMaterials[n].NumFramesDirty =
                  IF UpdatesDone >= gNumFrameResources THEN 0
                  ELSE gNumFrameResources - UpdatesDone)

\* An update pass has run after all other materials had become clean: only
\* the water material is dirty.
OnlyWaterDirty ==
   /\ pc = "updated"
   /\ UpdatesDone > gNumFrameResources
   /\ {n \in MaterialNames : mMaterials[n].NumFramesDirty > 0} = {"water"}
   /\ mMaterials["water"].NumFramesDirty = gNumFrameResources - 1

\* C23: the constant-buffer slot indices are in bounds and unique.  The
\* ObjCBIndex of every render item is its position in the registry counted
\* from 0, so distinct from every other item's, it never changes, and it is
\* a slot of the object buffer of every frame resource, which has as many
\* slots as the registry has items; the MatCBIndex values of the materials
\* are pairwise distinct, do not change, and are slots of the material
\* buffer of every frame resource, which has as many slots as there are
\* materials.
SlotIndicesInBounds ==
   /\ [](/\ \A i \in 1..Len(mAllRitems) : mAllRitems[i].ObjCBIndex = i - 1
         /\ \A i, j \in 1..Len(mAllRitems) :
               i # j => mAllRitems[i].ObjCBIndex # mAllRitems[j].ObjCBIndex
         /\ \A fr \in FrameIndices :
               /\ DOMAIN ObjectCB[fr] = 0..(Len(mAllRitems) - 1)
               /\ DOMAIN MaterialCB[fr] = 0..(Cardinality(MaterialNames) - 1)
               /\ \A i \in 1..Len(mAllRitems) :
                     mAllRitems[i].ObjCBIndex \in DOMAIN ObjectCB[fr]
               /\ \A n \in MaterialNames :
                     mMaterials[n].MatCBIndex \in DOMAIN MaterialCB[fr]
         /\ \A n, o \in MaterialNames :
               n # o => mMaterials[n].MatCBIndex # mMaterials[o].MatCBIndex
         /\ \A n \in MaterialNames :
               mMaterials[n].MatCBIndex < Cardinality(MaterialNames))
   /\ [][/\ \A i \in 1..Len(mAllRitems) :
               mAllRitems'[i].ObjCBIndex = mAllRitems[i].ObjCBIndex
         /\ \A n \in MaterialNames :
               mMaterials'[n].MatCBIndex = mMaterials[n].MatCBIndex]_vars

\* The first update pass has copied the item registered last into the last
\* slot of the object buffer, and a material into the last slot of the
\* material buffer.
LastSlotsWritten ==
   /\ pc = "updated"
   /\ UpdatesDone = 1
   /\ ObjectCB[mCurrFrameResourceIndex][Len(mAllRitems) - 1]
         = ObjectConstants(mAllRitems[Len(mAllRitems)])
   /\ \E n \in MaterialNames :
         /\ mMaterials[n].MatCBIndex = Cardinality(MaterialNames) - 1
         /\ MaterialCB[mCurrFrameResourceIndex][mMaterials[n].MatCBIndex]
               = MaterialConstants(mMaterials[n])

\* The texture each material is meant to show.
TextureOfMaterial ==
   [bricks0 |-> "Textures/bricks.dds", stone0 |-> "Textures/stone.dds",
    tile0 |-> "Textures/tile.dds", grass |-> "Textures/grass.dds",
    water |-> "Textures/water1.dds", bricks3 |-> "Textures/bricks3.dds",
    treeSprites |-> "Textures/treeArray.dds"]

\* The slot of the descriptor heap a recorded draw call binds.
SrvSlot(cmd) == (cmd.DescriptorTable - SrvHeapStart) \div mCbvSrvDescriptorSize

\* C24: the DiffuseSrvHeapIndex of every material is the slot of the
\* descriptor heap into which BuildDescriptorHeaps wrote the view of that
\* material's texture (bricks, stone, tile, grass, water, bricks3 and the
\* tree array at slots 0 to 6, for bricks0, stone0, tile0, grass, water,
\* bricks3 and treeSprites); the indices are pairwise distinct and below the
\* heap's descriptor count of 7, and every recorded draw call binds the slot
\* of its item's material.
SrvIndicesMatchHeap ==
   /\ DOMAIN TextureOfMaterial = MaterialNames
   /\ Len(BuildDescriptorHeaps) = SrvHeapNumDescriptors
   /\ \A n \in MaterialNames :
         /\ mMaterials[n].DiffuseSrvHeapIndex \in 0..(SrvHeapNumDescriptors - 1)
         /\ TextureAtSlot(mMaterials[n].DiffuseSrvHeapIndex) = TextureOfMaterial[n]
   /\ \A n, o \in MaterialNames :
         n # o => mMaterials[n].DiffuseSrvHeapIndex # mMaterials[o].DiffuseSrvHeapIndex
   /\ \A k \in RecordedDraws :
         \E i \in 1..Len(mAllRitems) :
            /\ ObjSlot(mCommandList[k], mCommandList[1].alloc) = mAllRitems[i].ObjCBIndex
            /\ TextureAtSlot(SrvSlot(mCommandList[k])) = TextureOfMaterial[mAllRitems[i].Mat]

\* All layers are recorded, with draw calls that bind the bricks3 texture at
\* slot 5 and the tree array at slot 6.
AllTexturesBound ==
   /\ AllLayersRecorded
   /\ \E k \in RecordedDraws :
         /\ SrvSlot(mCommandList[k]) = mMaterials["bricks3"].DiffuseSrvHeapIndex
         /\ TextureAtSlot(SrvSlot(mCommandList[k])) = "Textures/bricks3.dds"
   /\ \E k \in RecordedDraws : SrvSlot(mCommandList[k]) = SrvHeapNumDescriptors - 1

\* The render items of layer l.
ItemsOfLayer(l) == {mRitemLayer[l][k] : k \in 1..Len(mRitemLayer[l])}

\* C25: every draw call recorded under the treeSprites pipeline state has
\* point-list topology and the tree-sprite geometry, every draw call under
\* the opaque, alphaTested or transparent pipeline state (triangle topology
\* type) has triangle-list topology, and no point-list item is in the Opaque,
\* AlphaTested or Transparent layer.
TopologyMatchesPipeline ==
   /\ \A l \in {Opaque, AlphaTested, Transparent} :
         \A i \in ItemsOfLayer(l) : mAllRitems[i].PrimitiveType # POINTLIST
   /\ \A k \in RecordedDraws :
         IF BuildPSOs[PsoAt(k)].PrimitiveTopologyType = "POINT"
         THEN /\ PsoAt(k) = "treeSprites"
              /\ mCommandList[k].PrimitiveTopology = POINTLIST
              /\ mCommandList[k].VertexBuffer =
                    mGeometries["treeSpritesGeo"].VertexBufferGPU
         ELSE mCommandList[k].PrimitiveTopology = TRIANGLELIST

\* The pipeline-state keys Draw looks up: that of Reset and those of
\* SetPipelineState.
PsoKeysOfDraw == {DrawSequence[k].pso : k \in 1..Len(DrawSequence)}

\* C26: the name lookups are sound.  Every render item BuildRenderItems
\* registers names a material and a geometry that BuildMaterials and the
\* geometry builders have registered, and a submesh of that geometry; every
\* texture BuildDescriptorHeaps looks up was loaded; the material
\* AnimateMaterials looks up and the pipeline states Draw looks up exist.  So
\* no lookup adds an empty entry: the material registry holds the 7
\* materials built, in every state, and every item's material and geometry
\* is one of the registered ones.
RegistryLookupsSound ==
   /\ \A k \in 1..Len(RitemScript) :
         /\ RitemScript[k].Mat \in DOMAIN BuildMaterials
         /\ RitemScript[k].Geo \in DOMAIN BuildGeometries
         /\ RitemScript[k].Submesh \in DOMAIN BuildGeometries[RitemScript[k].Geo].DrawArgs
   /\ \A s \in 1..Len(BuildDescriptorHeaps) :
         BuildDescriptorHeaps[s] \in DOMAIN LoadTextures
   /\ PsoKeysOfDraw \subseteq DOMAIN BuildPSOs
   /\ "water" \in DOMAIN mMaterials
   /\ DOMAIN mMaterials =
         {"bricks0", "stone0", "tile0", "grass", "water", "bricks3", "treeSprites"}
   /\ Cardinality(DOMAIN mMaterials) = 7
   /\ \A n \in DOMAIN mMaterials : mMaterials[n].Name = n
   /\ \A i \in 1..Len(mAllRitems) :
         /\ mAllRitems[i].Mat \in DOMAIN mMaterials
         /\ mAllRitems[i].Geo \in DOMAIN mGeometries

\* The first frame has looked up everything: UpdateMaterialCBs has copied
\* all materials of the registry, and Draw has recorded all layers under
\* the pipeline states it looked up.
AllLookupsDone ==
   /\ AllLayersRecorded
   /\ UpdatesDone = 1
   /\ {PsoAt(k) : k \in RecordedDraws} = PsoKeysOfDraw
   /\ \A n \in DOMAIN mMaterials :
         MaterialCB[mCurrFrameResourceIndex][mMaterials[n].MatCBIndex]
            = MaterialConstants(mMaterials[n])

\* The nine submeshes of the shape geometry, in the order of the claim.
NineShapes ==
   <<"box", "sphere", "cylinder", "torus", "cone", "pyramid", "wedge",
     "diamond", "prism">>

\* The positions of the index buffer a submesh draws from.
IndexRange(sub) ==
   sub.StartIndexLocation..(sub.StartIndexLocation + sub.IndexCount - 1)

\* The number of vertices of the meshes before the k-th.
RECURSIVE VerticesBefore(_)
VerticesBefore(k) ==
   IF k = 1 THEN 0
   ELSE VerticesBefore(k - 1) + MeshData(NineShapes[k - 1]).Vertices

\* C27: the index ranges of the nine submeshes of the shape geometry are
\* pairwise disjoint, follow one another in the order box, sphere, cylinder,
\* torus, cone, pyramid, wedge, diamond, prism and cover the index buffer
\* exactly; the base vertex of each is the number of vertices of the meshes
\* before it; and the vertices and indices are in the buffers in the same
\* order, so that each submesh reads its own mesh's indices and vertices
\* only.
ShapeSubmeshesDisjoint ==
   LET args == mGeometries["shapeGeo"].DrawArgs
       vertices == ShapeVertices(Len(ShapeCopyOrder))
       indices == ShapeIndices(Len(ShapeCopyOrder))
   IN /\ DOMAIN args = {NineShapes[k] : k \in 1..Len(NineShapes)}
      /\ \A k, l \in 1..Len(NineShapes) :
            k # l => IndexRange(args[NineShapes[k]])
                        \cap IndexRange(args[NineShapes[l]]) = {}
      /\ args[NineShapes[1]].StartIndexLocation = 0
      /\ \A k \in 1..(Len(NineShapes) - 1) :
            args[NineShapes[k + 1]].StartIndexLocation =
               args[NineShapes[k]].StartIndexLocation + args[NineShapes[k]].IndexCount
      /\ args[NineShapes[Len(NineShapes)]].StartIndexLocation
            + args[NineShapes[Len(NineShapes)]].IndexCount = Len(indices)
      /\ \A k \in 1..Len(NineShapes) :
            LET s == NineShapes[k]
            IN /\ args[s].BaseVertexLocation = VerticesBefore(k)
               /\ \A p \in IndexRange(args[s]) :
                     /\ indices[p + 1].mesh = s
                     /\ indices[p + 1].n = p - args[s].StartIndexLocation
               /\ \A v \in 0..(MeshData(s).Vertices - 1) :
                     /\ vertices[args[s].BaseVertexLocation + v + 1].mesh = s
                     /\ vertices[args[s].BaseVertexLocation + v + 1].v = v

\* A draw call of the wedge submesh is recorded: it starts inside the index
\* buffer, at the first wedge index, on the first wedge vertex.
WedgeDrawn ==
   LET wedge == mGeometries["shapeGeo"].DrawArgs["wedge"]
   IN /\ wedge.StartIndexLocation > 0
      /\ wedge.BaseVertexLocation > 0
      /\ \E k \in RecordedDraws :
            /\ mCommandList[k].VertexBuffer = mGeometries["shapeGeo"].VertexBufferGPU
            /\ mCommandList[k].StartIndexLocation = wedge.StartIndexLocation
            /\ mCommandList[k].BaseVertexLocation = wedge.BaseVertexLocation
            /\ mCommandList[k].IndexCount = wedge.IndexCount

\* The vertex (row, column) of an m x n grid as the index of its vertex.
GridVertex(row, col, n) == row * n + col

\* Twice the signed area of the triangle of three indices of a grid with n
\* columns, in (row, column) coordinates: its sign is the winding.
Winding(a, b, c, n) ==
   LET row(x) == x \div n
       col(x) == x % n
   IN (row(b) - row(a)) * (col(c) - col(a)) - (col(b) - col(a)) * (row(c) - row(a))

\* C28: for an m x n grid the index loop of BuildWavesGeometry fills exactly
\* the 6 * (m - 1) * (n - 1) = 3 * TriangleCount indices of the vector, two
\* triangles per quad (i, j): (i, j), (i, j + 1), (i + 1, j) and (i + 1, j),
\* (i, j + 1), (i + 1, j + 1), both of the same winding, every index below
\* m * n; and the 128 x 128 grid of the application has fewer than 65535
\* vertices.
WaveIndicesTwoTrianglesPerQuad ==
   LET b == wavesBuild
       m == b.m
       n == b.n
       quads == b.k \div 6
   IN /\ Len(b.indices) = 6 * (m - 1) * (n - 1)
      /\ Len(b.indices) = 3 * GridTriangleCount(m, n)
      /\ b.k = 6 * quads
      /\ b.k <= Len(b.indices)
      /\ WavesLoopDone(b) => b.k = Len(b.indices)
      /\ \A q \in 0..(quads - 1) :
            LET i == q \div (n - 1)
                j == q % (n - 1)
                at(x) == b.indices[6 * q + x]
            IN /\ at(1) = GridVertex(i, j, n)
               /\ at(2) = GridVertex(i, j + 1, n)
               /\ at(3) = GridVertex(i + 1, j, n)
               /\ at(4) = GridVertex(i + 1, j, n)
               /\ at(5) = GridVertex(i, j + 1, n)
               /\ at(6) = GridVertex(i + 1, j + 1, n)
               /\ Winding(at(1), at(2), at(3), n) = Winding(at(4), at(5), at(6), n)
               /\ Winding(at(1), at(2), at(3), n) # 0
      /\ \A x \in 1..b.k : b.indices[x] \in 0..(m * n - 1)
      /\ WavesVertexCount < 65535
      /\ WavesVertexCount = WavesRowCount * WavesColumnCount
      /\ mGeometries["waterGeo"].DrawArgs["grid"].IndexCount
            = 6 * (WavesRowCount - 1) * (WavesColumnCount - 1)

\* The loop has run to its end on a grid that is not square and has more
\* than one row of quads.
WaveLoopFinished ==
   /\ wavesBuild.m = 3
   /\ wavesBuild.n = 4
   /\ WavesLoopDone(wavesBuild)
   /\ wavesBuild.k = 36

\* C29: the address of slot i of a constant buffer is base + i * stride,
\* with the stride the element size rounded up to a multiple of 256; each
\* slot's region starts on a multiple of 256, the regions of two slots do
\* not overlap, and the region of every slot below the slot count lies
\* inside the buffer of slot count * stride bytes.
ConstantBufferSlotsApart ==
   LET u == upload
       stride == CalcConstantBufferByteSize(u.byteSize)
       slots == 0..(Len(u.addresses) - 1)
       address(s) == u.addresses[s + 1]
   IN /\ stride % 256 = 0
      /\ stride >= u.byteSize
      /\ stride - u.byteSize < 256
      /\ \A s \in slots :
            /\ s < u.elementCount
            /\ address(s) = u.base + s * stride
            /\ address(s) % 256 = 0
            /\ address(s) >= u.base
            /\ address(s) + stride <= u.base + UploadBufferSize(u.byteSize, u.elementCount)
      /\ \A s, t \in slots :
            s # t => \/ address(s) + stride <= address(t)
                     \/ address(t) + stride <= address(s)

\* Every slot of a buffer of three elements of 257 bytes, two 256-byte
\* blocks each, has been addressed.
PaddedSlotsAddressed ==
   /\ upload.byteSize = 257
   /\ upload.elementCount = MaxElementCount
   /\ Len(upload.addresses) = upload.elementCount
   /\ upload.addresses[2] - upload.addresses[1] = 512

\* A scroll offset in [0, 1).
InUnitInterval(t) == 0 <= t /\ t < FixedOne

\* C30: for a frame time dt >= 0 with 0.1 * dt < 1, a call of
\* AnimateMaterials that finds the water material's tu and tv in [0, 1)
\* leaves them in [0, 1): tu advanced by 0.1 * dt and tv by 0.02 * dt, each
\* less 1 when it reached 1; and it changes no other field of the material
\* than these two and the dirty counter, and no other material.
ScrollStaysInUnitInterval ==
   LET before == anim.before["water"]
       after == anim.mats["water"]
       tu == before.MatTransform[4][1]
       tv == before.MatTransform[4][2]
       du == FixedMul(ScrollRateU, anim.dt)
       dv == FixedMul(ScrollRateV, anim.dt)
   IN (/\ anim.steps > 0
       /\ anim.dt >= 0
       /\ du < FixedOne
       /\ InUnitInterval(tu)
       /\ InUnitInterval(tv))
      => /\ InUnitInterval(after.MatTransform[4][1])
         /\ InUnitInterval(after.MatTransform[4][2])
         /\ after.MatTransform[4][1] = IF tu + du >= FixedOne THEN tu + du - FixedOne ELSE tu + du
         /\ after.MatTransform[4][2] = IF tv + dv >= FixedOne THEN tv + dv - FixedOne ELSE tv + dv
         /\ after.NumFramesDirty = gNumFrameResources
         /\ [after EXCEPT !.MatTransform[4][1] = tu,
                          !.MatTransform[4][2] = tv,
                          !.NumFramesDirty = before.NumFramesDirty] = before
         /\ \A n \in DOMAIN anim.mats \ {"water"} : anim.mats[n] = anim.before[n]
         /\ DOMAIN anim.mats = DOMAIN anim.before

\* A call with the longest frame time allowed found both offsets just below
\* 1 and brought both back into [0, 1).
ScrollWrapped ==
   /\ anim.steps > 0
   /\ anim.dt = MaxAnimDeltaTime
   /\ anim.before["water"].MatTransform[4][1] = FixedOne - 1
   /\ anim.before["water"].MatTransform[4][2] = FixedOne - 1
   /\ anim.mats["water"].MatTransform[4][1] < FixedOne - 1
   /\ anim.mats["water"].MatTransform[4][2] < FixedOne - 1

=============================================================================
